---------------------------- MODULE Spec2Model ----------------------------
(***************************************************************************)
(* gh-to-org: the Org document model, its parser (org_parser.py), its      *)
(* renderer (org_writer.py) and the merge engine (merger.py).              *)
(*                                                                         *)
(* Text.  A Python str is a sequence of atoms.  An atom is either one      *)
(* character (" ", "\n", "*", "#", ":", "_", ",", ">", a letter, a digit)  *)
(* or a fixed word that the code only ever handles as a whole (a property  *)
(* key, "TODO", the date part of a timestamp, the tail of the sync         *)
(* marker).  None is <<>> and a present optional value v is <<v>>.         *)
(***************************************************************************)
EXTENDS Integers, Sequences, FiniteSets, TLC

\* ------------------------------------------------------------------ bounds
\* Timestamps are minutes 0..MaxMinute of one hour.
MaxMinute == 2
\* Issue numbers are 1..MaxNumber.
MaxNumber == 2
\* A document of the forest family has at most MaxHeadings top-level headings.
MaxHeadings == 2
\* A run syncs (merges) at most MaxSyncs times.
MaxSyncs == 2

\* --------------------------------------------------------------- characters
NL == "\n"
SP == " "

\* str.isspace() characters of the alphabet (re's \s).
IsSpace(c) == c \in {" ", "\n", "\t", "\r"}

\* Python str.upper() / str.lower(), atom by atom.
UpperAtom(c) ==
  CASE c = "a" -> "A" [] c = "b" -> "B" [] c = "u" -> "U"
    [] c = "link" -> "LINK" [] c = "open" -> "OPEN" [] c = "closed" -> "CLOSED"
    [] c = "custom" -> "CUSTOM"
    [] OTHER -> c

LowerAtom(c) ==
  CASE c = "A" -> "a" [] c = "B" -> "b" [] c = "U" -> "u"
    [] c = "LINK" -> "link" [] c = "OPEN" -> "open" [] c = "CLOSED" -> "closed"
    [] c = "CUSTOM" -> "custom"
    [] OTHER -> c

Upper(s) == [i \in 1..Len(s) |-> UpperAtom(s[i])]
Lower(s) == [i \in 1..Len(s) |-> LowerAtom(s[i])]

\* Digits, for int().
DigitVal(c) ==
  CASE c = "0" -> 0 [] c = "1" -> 1 [] c = "2" -> 2 [] c = "3" -> 3
    [] c = "4" -> 4 [] c = "5" -> 5 [] c = "6" -> 6 [] c = "7" -> 7
    [] c = "8" -> 8 [] c = "9" -> 9 [] OTHER -> -1

IsDigit(c) == DigitVal(c) >= 0

\* Number of characters an atom stands for (len()).
AtomLen(c) ==
  CASE c = "GITHUB_NUMBER" -> 13 [] c = "GITHUB_STATE" -> 12
    [] c = "GITHUB_UPDATED" -> 14 [] c = "URL" -> 3 [] c = "CREATED" -> 7
    [] c = "AUTHOR" -> 6 [] c = "ASSIGNEES" -> 9 [] c = "MILESTONE" -> 9
    [] c = "CLOSED" -> 6 [] c = "COMMENTS" -> 8 [] c = "CUSTOM" -> 6 [] c = "GITHUB_" -> 7
    [] c = "custom" -> 6 [] c = "PROPERTIES" -> 10 [] c = "END" -> 3
    [] OTHER -> 1

\* Characters of [A-Za-z0-9_-]: property names (PROPERTY_LINE).
IsKeyChar(c) ==
  c \in {"a", "b", "u", "A", "B", "U", "_", "-", "link", "LINK", "open", "OPEN",
         "closed", "GITHUB_", "GITHUB_NUMBER", "GITHUB_STATE", "GITHUB_UPDATED", "URL",
         "CREATED", "AUTHOR", "ASSIGNEES", "MILESTONE", "CLOSED", "COMMENTS",
         "CUSTOM", "custom", "PROPERTIES", "END", "TODO", "DONE", "x"}
  \/ IsDigit(c)

\* Characters of [a-zA-Z0-9_@#%:]: the tag cluster (HEADING_PATTERN).
IsTagChar(c) == (IsKeyChar(c) /\ c # "-") \/ c \in {"@", "#", "%", ":"}

\* ------------------------------------------------------------------ strings
Max(a, b) == IF a >= b THEN a ELSE b
Min(a, b) == IF a <= b THEN a ELSE b

\* s[i:] and s[:i] with Python's 0-based slice bounds.
DropN(s, n) == SubSeq(s, Min(n, Len(s)) + 1, Len(s))
TakeN(s, n) == SubSeq(s, 1, Min(n, Len(s)))

\* str.startswith
StartsWith(s, p) == Len(s) >= Len(p) /\ SubSeq(s, 1, Len(p)) = p

\* str.find(p) + 1: the 1-based index of the first occurrence, 0 when absent.
Find(s, p) ==
  LET hits == {i \in 1..(Len(s) - Len(p) + 1) : SubSeq(s, i, i + Len(p) - 1) = p}
  IN IF hits = {} THEN 0 ELSE CHOOSE i \in hits : \A j \in hits : i <= j

\* p in s
Contains(s, p) == Find(s, p) # 0

\* str.lstrip(), str.rstrip(), str.strip()
LStrip(s) ==
  LET keep == {i \in 1..Len(s) : ~IsSpace(s[i])}
  IN IF keep = {} THEN <<>>
     ELSE SubSeq(s, CHOOSE i \in keep : \A j \in keep : i <= j, Len(s))

RStrip(s) ==
  LET keep == {i \in 1..Len(s) : ~IsSpace(s[i])}
  IN IF keep = {} THEN <<>>
     ELSE SubSeq(s, 1, CHOOSE i \in keep : \A j \in keep : i >= j)

Strip(s) == LStrip(RStrip(s))

\* str.strip("_")
StripUnderscore(s) ==
  LET keep == {i \in 1..Len(s) : s[i] # "_"}
  IN IF keep = {} THEN <<>>
     ELSE SubSeq(s, CHOOSE i \in keep : \A j \in keep : i <= j,
                    CHOOSE i \in keep : \A j \in keep : i >= j)

\* str.split(sep) for a one-character separator: never empty.
SplitOn(s, sep) ==
  LET at == {i \in 1..Len(s) : s[i] = sep}
      n == Cardinality(at)
      cut(k) == IF k = 0 THEN 0
                ELSE IF k = n + 1 THEN Len(s) + 1
                ELSE CHOOSE i \in at : Cardinality({j \in at : j < i}) = k - 1
  IN [k \in 1..(n + 1) |-> SubSeq(s, cut(k - 1) + 1, cut(k) - 1)]

SplitLines(s) == SplitOn(s, NL)

\* sep.join(parts)
RECURSIVE Join(_, _)
Join(parts, sep) ==
  IF Len(parts) = 0 THEN <<>>
  ELSE IF Len(parts) = 1 THEN parts[1]
  ELSE LET h == Len(parts) \div 2
       IN Join(SubSeq(parts, 1, h), sep) \o sep \o Join(SubSeq(parts, h + 1, Len(parts)), sep)

\* "".join(parts)
Concat(parts) == Join(parts, <<>>)

JoinLines(parts) == Join(parts, <<NL>>)

\* str.replace(old, new) for a one-character old.
ReplaceChar(s, old, new) ==
  Concat([i \in 1..Len(s) |-> IF s[i] = old THEN new ELSE <<s[i]>>])

\* len(s) in characters.
RECURSIVE StrLen(_)
StrLen(s) == IF s = <<>> THEN 0 ELSE AtomLen(Head(s)) + StrLen(Tail(s))

\* " " * n
Spaces(n) == [i \in 1..n |-> SP]
Stars(n) == [i \in 1..n |-> "*"]

\* Sequence helpers.
Range(s) == {s[i] : i \in 1..Len(s)}

\* A dict as a function on its key set: d.get(k, default), d | {k: v}.
Get(d, k, default) == IF k \in DOMAIN d THEN d[k] ELSE default
Put(d, k, v) == [x \in DOMAIN d \cup {k} |-> IF x = k THEN v ELSE d[x]]
EmptyDict == [x \in {} |-> <<>>]

None == <<>>
Some(v) == <<v>>

\* str(n) for a small natural number.
DigitAtom(n) ==
  CASE n = 0 -> "0" [] n = 1 -> "1" [] n = 2 -> "2" [] n = 3 -> "3" [] n = 4 -> "4"
    [] n = 5 -> "5" [] n = 6 -> "6" [] n = 7 -> "7" [] n = 8 -> "8" [] OTHER -> "9"

IntStr(n) == IF n < 10 THEN <<DigitAtom(n)>> ELSE <<DigitAtom(n \div 10), DigitAtom(n % 10)>>

\* int(s): surrounding whitespace is accepted, then decimal digits; anything else raises
\* ValueError (None here).  Signs and digit-group underscores are outside the alphabet.
RECURSIVE DigitsValue(_, _)
DigitsValue(s, acc) ==
  IF s = <<>> THEN acc ELSE DigitsValue(Tail(s), 10 * acc + DigitVal(Head(s)))

ParseInt(s) ==
  LET t == Strip(s)
  IN IF t # <<>> /\ \A i \in 1..Len(t) : IsDigit(t[i]) THEN Some(DigitsValue(t, 0)) ELSE None

\* ------------------------------------------------------------------- models
\* datetime: the minute and second of one fixed hour.
Seconds == {0, 30}
DateTime(m, sec) == [min |-> m, sec |-> sec]

\* dt.replace(second=0, microsecond=0)
TruncMinute(dt) == [dt EXCEPT !.sec = 0]

\* dt1 > dt2
DtGreater(a, b) == a.min > b.min \/ (a.min = b.min /\ a.sec > b.sec)

\* datetime.fromisoformat(s.replace("Z", "+00:00")): "I" is the date and hour of an ISO
\* string ("2024-01-15T10:"), then the minute digit, then optionally the seconds
\* ("s00" is ":00", "s30" is ":30").  Any other string raises ValueError (None).
FromIsoFormat(s) ==
  IF Len(s) \in {2, 3} /\ s[1] = "I" /\ IsDigit(s[2])
     /\ (Len(s) = 3 => s[3] \in {"s00", "s30"})
  THEN Some(DateTime(DigitVal(s[2]), IF Len(s) = 3 /\ s[3] = "s30" THEN 30 ELSE 0))
  ELSE None

\* dt.isoformat()
IsoFormat(dt) == <<"I", DigitAtom(dt.min), IF dt.sec = 30 THEN "s30" ELSE "s00">>

\* OrgHeading.github_number
GithubNumber(h) ==
  LET num_str == Get(h.properties, <<"GITHUB_NUMBER">>, <<>>)
  IN IF num_str # <<>> THEN ParseInt(num_str) ELSE None

\* OrgHeading.github_updated
GithubUpdated(h) ==
  LET updated_str == Get(h.properties, <<"GITHUB_UPDATED">>, <<>>)
  IN IF updated_str # <<>> THEN FromIsoFormat(updated_str) ELSE None

\* OrgHeading(...): the constructor.  raw_text is the verbatim text the parser stores
\* (org_parser.py:207) and the merger clears (merger.py:197); it defaults to None.
LevelMin == 1
LevelMax == 10

OrgHeading(level, title, todo_state, tags, properties, content, children, source_line, raw_text) ==
  [level |-> level, title |-> title, todo_state |-> todo_state, tags |-> tags,
   properties |-> properties, content |-> content, children |-> children,
   source_line |-> source_line, raw_text |-> raw_text]

\* pydantic validates Field(ge=1, le=10) when a heading is constructed.
ValidLevel(level) == LevelMin <= level /\ level <= LevelMax

\* ------------------------------------------------------------------- writer
\* format_timestamp(dt): "[" date day hour ":" minute "]"; "D" is "2024-01-15 Mon 10:".
\* The seconds are not written.
FormatTimestamp(dt) == <<"[", "D", DigitAtom(dt.min), "]">>

\* sorted(): the code-point order of the atoms that occur in property names.
AtomOrder ==
  <<"-", "0", "1", "2", "3", "4", "5", "6", "7", "8", "9", "A", "ASSIGNEES", "AUTHOR",
    "B", "CLOSED", "COMMENTS", "CREATED", "CUSTOM", "DONE", "END", "GITHUB_", "GITHUB_NUMBER",
    "GITHUB_STATE", "GITHUB_UPDATED", "LINK", "MILESTONE", "OPEN", "PROPERTIES", "TODO",
    "U", "URL", "_", "a", "b", "closed", "custom", "link", "open", "u", "x">>

AtomRank(c) ==
  IF \E i \in 1..Len(AtomOrder) : AtomOrder[i] = c
  THEN CHOOSE i \in 1..Len(AtomOrder) : AtomOrder[i] = c
  ELSE 0

RECURSIVE StrLess(_, _)
StrLess(a, b) ==
  IF b = <<>> THEN FALSE
  ELSE IF a = <<>> THEN TRUE
  ELSE IF Head(a) = Head(b) THEN StrLess(Tail(a), Tail(b))
  ELSE AtomRank(Head(a)) < AtomRank(Head(b))

RECURSIVE SortedKeys(_)
SortedKeys(S) ==
  IF S = {} THEN <<>>
  ELSE LET m == CHOOSE k \in S : \A j \in S \ {k} : StrLess(k, j)
       IN <<m>> \o SortedKeys(S \ {m})

TargetColumn == 11

\* format_properties(properties)
FormatProperties(properties) ==
  LET valid == {k \in DOMAIN properties : Strip(properties[k]) # <<>>}
      keys == SortedKeys(valid)
      line(k) ==
        LET key_upper == Upper(k)
            prop_prefix_len == StrLen(key_upper) + 2
            padding == IF prop_prefix_len >= TargetColumn THEN <<SP>>
                       ELSE Spaces(TargetColumn - prop_prefix_len)
        IN <<":">> \o key_upper \o <<":">> \o padding \o properties[k]
  IN IF DOMAIN properties = {} \/ valid = {} THEN <<>>
     ELSE JoinLines(<< <<":", "PROPERTIES", ":">> >>
                    \o [i \in 1..Len(keys) |-> line(keys[i])]
                    \o << <<":", "END", ":">> >>)

\* ":" + ":".join(tags) + ":"
TagCluster(tags) == <<":">> \o Join(tags, <<":">>) \o <<":">>

\* OrgWriter.format_heading(heading)
RECURSIVE FormatHeading(_)
FormatHeading(heading) ==
  LET parts == << Stars(heading.level) >>
               \o (IF heading.todo_state # None THEN << <<heading.todo_state[1]>> >> ELSE <<>>)
               \o << heading.title >>
               \o (IF heading.tags # <<>> THEN << TagCluster(heading.tags) >> ELSE <<>>)
      props_text == FormatProperties(heading.properties)
      own == IF heading.raw_text # None THEN << heading.raw_text[1] >>
             ELSE << Join(parts, <<SP>>) >>
                  \o (IF props_text # <<>> THEN << props_text >> ELSE <<>>)
                  \o (IF heading.content # <<>> THEN << heading.content >> ELSE <<>>)
      RECURSIVE kids(_)
      kids(cs) == IF cs = <<>> THEN <<>>
                  ELSE << <<>>, FormatHeading(Head(cs)) >> \o kids(Tail(cs))
  IN JoinLines(own \o kids(heading.children))


\* normalize_line_endings(text): CRLF and CR become LF.
NormalizeLineEndings(s) ==
  Concat([i \in 1..Len(s) |->
            IF s[i] = "\r" THEN <<NL>>
            ELSE IF s[i] = NL /\ i > 1 /\ s[i - 1] = "\r" THEN <<>>
            ELSE <<s[i]>>])

\* Length of the longest prefix of s with no character of the set stop.
RunLen(s, stop) ==
  LET bad == {i \in 1..Len(s) : s[i] \in stop}
  IN IF bad = {} THEN Len(s) ELSE (CHOOSE i \in bad : \A j \in bad : i <= j) - 1

\* re.sub(d d ([^d]+) d d, "*\1*"): Markdown bold, d is "*" or "_".
RECURSIVE SubBold(_, _)
SubBold(s, d) ==
  IF s = <<>> THEN <<>>
  ELSE LET run == IF StartsWith(s, <<d, d>>) THEN RunLen(DropN(s, 2), {d}) ELSE 0
           hit == run >= 1 /\ StartsWith(DropN(s, 2 + run), <<d, d>>)
       IN IF hit
          THEN <<"*">> \o SubSeq(s, 3, 2 + run) \o <<"*">> \o SubBold(DropN(s, 4 + run), d)
          ELSE <<Head(s)>> \o SubBold(Tail(s), d)

\* re.sub((?<=\s) d ([^d\n]+) d (?=\s|$|[.,;:!?]), "/\1/"): Markdown italic.
\* prev is the character before s ("" at the start of the text).
RECURSIVE SubItalic(_, _, _)
SubItalic(s, d, prev) ==
  IF s = <<>> THEN <<>>
  ELSE LET run == IF Head(s) = d /\ IsSpace(prev) THEN RunLen(Tail(s), {d, NL}) ELSE 0
           rest == DropN(s, 2 + run)
           hit == /\ run >= 1
                  /\ StartsWith(DropN(s, 1 + run), <<d>>)
                  /\ (rest = <<>> \/ rest = <<NL>> \/ IsSpace(rest[1])
                      \/ rest[1] \in {".", ",", ";", ":", "!", "?"})
       IN IF hit
          THEN <<"/">> \o SubSeq(s, 2, 1 + run) \o <<"/">> \o SubItalic(rest, d, d)
          ELSE <<Head(s)>> \o SubItalic(Tail(s), d, Head(s))

\* The blockquote pass of markdown_to_org, line by line.
RECURSIVE QuoteLines(_, _)
QuoteLines(lines, in_blockquote) ==
  IF lines = <<>> THEN (IF in_blockquote THEN << <<"#", "+", "END_QUOTE">> >> ELSE <<>>)
  ELSE LET line == Head(lines)
           open == IF in_blockquote THEN <<>> ELSE << <<"#", "+", "BEGIN_QUOTE">> >>
       IN IF StartsWith(line, <<">", SP>>)
          THEN open \o << DropN(line, 2) >> \o QuoteLines(Tail(lines), TRUE)
          ELSE IF StartsWith(line, <<">">>)
          THEN open \o << DropN(line, 1) >> \o QuoteLines(Tail(lines), TRUE)
          ELSE (IF in_blockquote THEN << <<"#", "+", "END_QUOTE">> >> ELSE <<>>)
               \o << line >> \o QuoteLines(Tail(lines), FALSE)

\* markdown_to_org(text).  The passes for fenced code, links, inline code and
\* strikethrough rewrite characters (backquote, brackets, tilde) that no text of the
\* model contains; the passes over "*", "_" and ">" are modelled.
MarkdownToOrg(text) ==
  IF text = <<>> THEN <<>>
  ELSE LET t0 == NormalizeLineEndings(text)
           t1 == SubBold(SubBold(t0, "*"), "_")
           t2 == SubItalic(SubItalic(t1, "*", ""), "_", "")
       IN JoinLines(QuoteLines(SplitLines(t2), FALSE))

\* One line of escape_org_content: does it get the ", " prefix?
NeedsEscape(stripped) ==
  LET Plain(c) == c # "*" /\ ~IsSpace(c)
      bold == /\ Len(stripped) >= 4
              /\ Plain(stripped[2])
              /\ \E j \in 4..Len(stripped) : stripped[j] = "*" /\ Plain(stripped[j - 1])
      colon_pos == Find(Tail(stripped), <<":">>)
      potential_keyword == SubSeq(stripped, 2, colon_pos)
  IN IF StartsWith(stripped, <<"*">>) /\ ~bold
     THEN Len(stripped) = 1 \/ stripped[2] = SP
     ELSE IF StartsWith(stripped, <<"#">>) /\ ~StartsWith(stripped, <<"#", "+">>)
     THEN TRUE
     ELSE IF StartsWith(stripped, <<":">>) /\ colon_pos # 0
     THEN /\ potential_keyword # <<>>
          /\ IsKeyChar(potential_keyword[1])
          /\ ~IsDigit(potential_keyword[1]) /\ potential_keyword[1] # "-"
          /\ \A i \in 1..Len(potential_keyword) : IsKeyChar(potential_keyword[i])
     ELSE FALSE

EscapeLine(line) ==
  LET stripped == LStrip(line)
      indent == TakeN(line, Len(line) - Len(stripped))
  IN IF stripped = <<>> THEN line
     ELSE IF NeedsEscape(stripped) THEN indent \o <<",", SP>> \o stripped
     ELSE line

\* escape_org_content(text)
EscapeOrgContent(text) ==
  IF text = <<>> THEN <<>>
  ELSE LET lines == SplitLines(MarkdownToOrg(text))
       IN JoinLines([i \in 1..Len(lines) |-> EscapeLine(lines[i])])


\* ------------------------------------------------------------------- merger
\* OrgMerger.SYNC_MARKER: "#", a space, and the rest of the literal as one atom.
SYNC_MARKER == <<"#", SP, "--- End of GitHub synced content ---">>

\* re.sub(r"[:\s]+", "_", s): each maximal run of colons and whitespace becomes one "_".
RECURSIVE SubRuns(_)
SubRuns(s) ==
  IF s = <<>> THEN <<>>
  ELSE IF Head(s) = ":" \/ IsSpace(Head(s))
       THEN LET n == RunLen(s, {c \in Range(s) : c # ":" /\ ~IsSpace(c)})
            IN <<"_">> \o SubRuns(DropN(s, n))
       ELSE <<Head(s)>> \o SubRuns(Tail(s))

\* re.sub(r"[:\s]+", "_", label.strip()).strip("_")
CleanTag(label) == StripUnderscore(SubRuns(Strip(label)))

\* x in list
InSeq(x, list) == \E i \in 1..Len(list) : list[i] = x

\* The loop "for label in issue.label_names" of _merge_tags.
RECURSIVE MergeLabelTags(_, _)
MergeLabelTags(labels, tags) ==
  IF labels = <<>> THEN tags
  ELSE LET clean_tag == CleanTag(Head(labels))
       IN MergeLabelTags(Tail(labels),
            IF clean_tag # <<>> /\ ~InSeq(clean_tag, tags) THEN Append(tags, clean_tag) ELSE tags)

\* A merge that takes no tag from the existing heading.
NoUserTags(existing_tags, github_label_tags, tags) == tags

\* The loop "for tag in existing.tags" of _merge_tags.
RECURSIVE MergeUserTags(_, _, _)
MergeUserTags(existing_tags, github_label_tags, tags) ==
  IF existing_tags = <<>> THEN tags
  ELSE LET tag == Head(existing_tags)
       IN MergeUserTags(Tail(existing_tags), github_label_tags,
            IF Upper(tag) # <<"LINK">> /\ tag \notin github_label_tags /\ ~InSeq(tag, tags)
            THEN Append(tags, tag) ELSE tags)

\* OrgMerger._merge_tags(issue, existing)
MergeTags(issue, existing, add_link_tag) ==
  LET tags0 == IF add_link_tag THEN << <<"LINK">> >> ELSE <<>>
      tags1 == MergeLabelTags(issue.labels, tags0)
      github_label_tags == {CleanTag(issue.labels[i]) : i \in 1..Len(issue.labels)}
  IN MergeUserTags(existing.tags, github_label_tags, tags1)

\* The GitHub-managed part of the properties, shared by _merge_properties (lines
\* 275-288) and _issue_to_heading (lines 376-390).
GithubProperties(issue, base) ==
  LET p1 == Put(base, <<"GITHUB_NUMBER">>, IntStr(issue.number))
      p2 == Put(p1, <<"URL">>, issue.url)
      p3 == Put(p2, <<"GITHUB_STATE">>, issue.state)
      p4 == Put(p3, <<"GITHUB_UPDATED">>, FormatTimestamp(issue.updated_at))
      p5 == Put(p4, <<"CREATED">>, FormatTimestamp(issue.created_at))
      p6 == Put(p5, <<"AUTHOR">>, issue.author)
      p7 == IF issue.assignees # <<>>
            THEN Put(p6, <<"ASSIGNEES">>, Join(issue.assignees, <<",", SP>>)) ELSE p6
      p8 == IF issue.milestone # None THEN Put(p7, <<"MILESTONE">>, issue.milestone[1]) ELSE p7
  IN IF issue.closed_at # None
     THEN Put(p8, <<"CLOSED">>, FormatTimestamp(issue.closed_at[1])) ELSE p8

\* key.startswith("GITHUB_")
IsGithubKey(key) ==
  key # <<>> /\ key[1] \in {"GITHUB_NUMBER", "GITHUB_STATE", "GITHUB_UPDATED", "GITHUB_"}

github_managed ==
  {<<"URL">>, <<"CREATED">>, <<"AUTHOR">>, <<"ASSIGNEES">>, <<"MILESTONE">>, <<"CLOSED">>}

\* A merge that keeps no property of the existing heading.
FreshProperties(issue, existing) == GithubProperties(issue, EmptyDict)

\* OrgMerger._merge_properties(issue, existing)
MergeProperties(issue, existing) ==
  LET kept == {k \in DOMAIN existing.properties : ~IsGithubKey(k) /\ k \notin github_managed}
  IN GithubProperties(issue, [k \in kept |-> existing.properties[k]])

\* A merge that finds no text after the marker.
NoUserContent(content) == <<>>

\* OrgMerger._extract_user_content(content)
ExtractUserContent(content) ==
  LET k == Find(content, SYNC_MARKER)
  IN IF k = 0 THEN <<>> ELSE Strip(DropN(content, k - 1 + Len(SYNC_MARKER)))

\* OrgMerger._merge_content(issue, existing)
MergeContent(issue, existing) ==
  LET body == IF issue.body # None /\ issue.body[1] # <<>>
              THEN << EscapeOrgContent(Strip(issue.body[1])) >> ELSE <<>>
      user_content == ExtractUserContent(existing.content)
      parts == body \o (IF user_content # <<>> THEN << <<>>, user_content >> ELSE <<>>)
  IN RStrip(JoinLines(parts))

\* The comments in the order of the issue record.
Unordered(comments) == comments

\* sorted(issue.comments, key=lambda c: c.created_at): a stable sort.
DtKey(dt) == 60 * dt.min + dt.sec

RECURSIVE InsertComment(_, _)
InsertComment(sorted, c) ==
  IF sorted = <<>> THEN <<c>>
  ELSE IF DtKey(c.created_at) < DtKey(Head(sorted).created_at) THEN <<c>> \o sorted
  ELSE <<Head(sorted)>> \o InsertComment(Tail(sorted), c)

RECURSIVE SortComments(_)
SortComments(comments) ==
  IF comments = <<>> THEN <<>>
  ELSE InsertComment(SortComments(SubSeq(comments, 1, Len(comments) - 1)),
                     comments[Len(comments)])

\* The comment child that _merge_children (lines 346-355) and _issue_to_heading (lines
\* 401-410) build.  "Comment by @" is one atom.
CommentHeading(comment, level) ==
  OrgHeading(level,
             <<"Comment by @">> \o comment.author \o <<SP>> \o FormatTimestamp(comment.created_at),
             None, <<>>, EmptyDict,
             IF comment.body # <<>> THEN EscapeOrgContent(Strip(comment.body)) ELSE <<>>,
             <<>>, None, None)

CommentChildren(issue, level) ==
  LET cs == SortComments(issue.comments)
  IN [i \in 1..Len(cs) |-> CommentHeading(cs[i], level)]

\* A merge that keeps no existing child.
NoChildren(children) == <<>>

\* The loop "for child in existing.children" of _merge_children (lines 357-360).
RECURSIVE UserChildren(_)
UserChildren(children) ==
  IF children = <<>> THEN <<>>
  ELSE (IF ~StartsWith(Head(children).title, <<"Comment by @">>)
        THEN <<Head(children)>> ELSE <<>>)
       \o UserChildren(Tail(children))

\* OrgMerger._merge_children(issue, existing)
MergeChildren(issue, existing) ==
  CommentChildren(issue, existing.level + 1) \o UserChildren(existing.children)

\* Every synthesized heading is TODO.
AlwaysTodo(issue) == Some("TODO")

\* DONE if issue.state.value == "closed" else TODO
TodoStateOf(issue) == IF issue.state = <<"closed">> THEN Some("DONE") ELSE Some("TODO")

\* OrgMerger._issue_to_heading(issue, level=1)
RECURSIVE LabelTags(_)
LabelTags(labels) ==
  IF labels = <<>> THEN <<>>
  ELSE (IF CleanTag(Head(labels)) # <<>> THEN << CleanTag(Head(labels)) >> ELSE <<>>)
       \o LabelTags(Tail(labels))

IssueToHeading(issue, level, add_link_tag) ==
  OrgHeading(level, issue.title, TodoStateOf(issue),
             (IF add_link_tag THEN << <<"LINK">> >> ELSE <<>>) \o LabelTags(issue.labels),
             GithubProperties(issue, EmptyDict),
             IF issue.body # None /\ issue.body[1] # <<>>
             THEN EscapeOrgContent(Strip(issue.body[1])) ELSE <<>>,
             CommentChildren(issue, level + 1),
             None, None)

\* Every matched heading is synthesized again.
AlwaysUpdate(issue, existing) == TRUE

\* OrgMerger._needs_update(issue, existing)
NeedsUpdate(issue, existing) ==
  LET existing_updated == GithubUpdated(existing)
  IN IF existing_updated = None THEN TRUE
     ELSE IF DtGreater(TruncMinute(issue.updated_at), TruncMinute(existing_updated[1]))
     THEN TRUE
     ELSE Lower(Get(existing.properties, <<"GITHUB_STATE">>, <<>>)) # issue.state

\* re.sub(r"  +", " ", line): runs of two or more spaces become one space.
CollapseSpaces(s) ==
  Concat([i \in 1..Len(s) |-> IF s[i] = SP /\ i > 1 /\ s[i - 1] = SP THEN <<>> ELSE <<s[i]>>])

\* _normalize_for_comparison(text)
NormalizeForComparison(text) ==
  LET lines == SplitLines(NormalizeLineEndings(text))
      norm(line) == LET l == RStrip(line)
                    IN IF StartsWith(l, <<"*">>) THEN CollapseSpaces(l) ELSE l
  IN Strip(JoinLines([i \in 1..Len(lines) |-> norm(lines[i])]))

\* The heading that _merge_heading synthesizes (lines 188-198).
MergedHeading(issue, existing, add_link_tag) ==
  OrgHeading(existing.level, issue.title, TodoStateOf(issue),
             MergeTags(issue, existing, add_link_tag),
             MergeProperties(issue, existing),
             MergeContent(issue, existing),
             MergeChildren(issue, existing),
             existing.source_line, None)

\* Constructing the synthesized heading raises pydantic's ValidationError when a comment
\* child gets level existing.level + 1 > 10.
MergeHeadingRaises(issue, existing) ==
  NeedsUpdate(issue, existing) /\ issue.comments # <<>> /\ ~ValidLevel(existing.level + 1)

\* A comparison of the renderings as they are, character for character.
CompareExactly(existing, merged) ==
  IF FormatHeading(existing) = FormatHeading(merged)
  THEN [heading |-> existing, action |-> "unchanged"]
  ELSE [heading |-> merged, action |-> "updated"]

\* The comparison of _merge_heading (lines 200-207): the existing heading is kept when
\* it renders like the synthesized one.
CompareHeadings(existing, merged) ==
  IF NormalizeForComparison(FormatHeading(existing))
     = NormalizeForComparison(FormatHeading(merged))
  THEN [heading |-> existing, action |-> "unchanged"]
  ELSE [heading |-> merged, action |-> "updated"]

\* OrgMerger._merge_heading(issue, existing): the heading and the action.
MergeHeading(issue, existing, add_link_tag) ==
  IF ~NeedsUpdate(issue, existing) THEN [heading |-> existing, action |-> "unchanged"]
  ELSE CompareHeadings(existing, MergedHeading(issue, existing, add_link_tag))

\* OrgMerger._describe_changes(issue, existing): the parts joined by ", ".
DescribeChanges(issue, existing) ==
  LET existing_state == Lower(Get(existing.properties, <<"GITHUB_STATE">>, <<>>))
      count == ParseInt(Get(existing.properties, <<"COMMENTS">>, <<"0">>))
      changes ==
        (IF issue.title # existing.title THEN << <<"title">> >> ELSE <<>>)
        \o (IF existing_state # issue.state
            THEN << <<"state (">> \o existing_state \o <<" -> ">> \o issue.state \o <<")">> >>
            ELSE <<>>)
        \o (IF count # None /\ count[1] < Len(issue.comments)
            THEN << <<"new comments">> >> ELSE <<>>)
  IN IF changes # <<>> THEN Join(changes, <<",", SP>>) ELSE <<"content updated">>

\* MergeResult(total_github_issues=..., total_org_headings=...)
NewMergeResult(n_issues, n_headings) ==
  [entries |-> <<>>, total_github_issues |-> n_issues, total_org_headings |-> n_headings,
   added |-> 0, updated |-> 0, unchanged |-> 0, preserved |-> 0, errors |-> <<>>]

\* An add_entry that logs the entry and leaves the counters alone.
AddEntryUncounted(result, issue_number, title, action, details) ==
  [result EXCEPT !.entries = Append(@, [issue_number |-> issue_number, title |-> title,
                                        action |-> action, details |-> details])]

\* MergeResult.add_entry(issue_number, title, action, details)
AddEntry(result, issue_number, title, action, details) ==
  LET r == [result EXCEPT !.entries = Append(@, [issue_number |-> issue_number,
                                                  title |-> title, action |-> action,
                                                  details |-> details])]
  IN CASE action = "added" -> [r EXCEPT !.added = @ + 1]
       [] action = "updated" -> [r EXCEPT !.updated = @ + 1]
       [] action = "unchanged" -> [r EXCEPT !.unchanged = @ + 1]
       [] action = "preserved" -> [r EXCEPT !.preserved = @ + 1]
       [] OTHER -> r

\* issue_index = {issue.number: issue for issue in github_issues}: the last issue
\* with a number wins.
InIndex(github_issues, n) == \E i \in 1..Len(github_issues) : github_issues[i].number = n

IndexGet(github_issues, n) ==
  LET hits == {i \in 1..Len(github_issues) : github_issues[i].number = n}
  IN github_issues[CHOOSE i \in hits : \A j \in hits : i >= j]

\* The loop over existing_headings of OrgMerger.merge (lines 119-146).  st is the state
\* of the loop: the merged list, the processed numbers, the MergeResult, whether a call
\* raised; acts records, per output heading, the branch that produced it.
RECURSIVE MergeExisting(_, _, _, _)

\* A merge that reports the headings it keeps as unchanged.
PreservedAsUnchanged(st, heading) ==
  [st EXCEPT !.headings = Append(@, heading),
             !.acts = Append(@, "unchanged"),
             !.result.unchanged = @ + 1]

\* A merge that blanks the content of the headings it preserves.
PreservedBlank(st, heading) ==
  [st EXCEPT !.headings = Append(@, [heading EXCEPT !.content = <<>>]),
             !.acts = Append(@, "preserved"),
             !.result.preserved = @ + 1]

\* Lines 122-125 and 143-146: the heading is kept as it is.
Preserved(st, heading) ==
  [st EXCEPT !.headings = Append(@, heading),
             !.acts = Append(@, "preserved"),
             !.result.preserved = @ + 1]

\* Lines 131-142: the outcome m of _merge_heading is appended and reported.
Matched(st, issue, heading, m) ==
  [st EXCEPT !.headings = Append(@, m.heading),
             !.acts = Append(@, m.action),
             !.processed = @ \cup {issue.number},
             !.result = AddEntry(@, issue.number, issue.title, m.action,
                                 IF m.action = "updated"
                                 THEN Some(DescribeChanges(issue, heading)) ELSE None)]

MergeMatched(github_issues, rest, add_link_tag, st, heading, issue) ==
  IF MergeHeadingRaises(issue, heading) THEN [st EXCEPT !.raised = TRUE]
  ELSE MergeExisting(github_issues, rest, add_link_tag,
                     Matched(st, issue, heading, MergeHeading(issue, heading, add_link_tag)))

MergeOne(github_issues, rest, add_link_tag, st, heading, gh_num) ==
  IF gh_num # None /\ InIndex(github_issues, gh_num[1])
  THEN MergeMatched(github_issues, rest, add_link_tag, st, heading,
                    IndexGet(github_issues, gh_num[1]))
  ELSE MergeExisting(github_issues, rest, add_link_tag, Preserved(st, heading))

MergeExisting(github_issues, existing_headings, add_link_tag, st) ==
  IF existing_headings = <<>> \/ st.raised THEN st
  ELSE MergeOne(github_issues, Tail(existing_headings), add_link_tag, st,
                Head(existing_headings), GithubNumber(Head(existing_headings)))

\* The new issues in the order of the issue list.
Unsorted(issues) == issues

\* sorted(new_issues, key=lambda i: i.number): a stable sort.
RECURSIVE InsertIssue(_, _)
InsertIssue(sorted, issue) ==
  IF sorted = <<>> THEN <<issue>>
  ELSE IF issue.number < Head(sorted).number THEN <<issue>> \o sorted
  ELSE <<Head(sorted)>> \o InsertIssue(Tail(sorted), issue)

RECURSIVE SortIssues(_)
SortIssues(issues) ==
  IF issues = <<>> THEN <<>>
  ELSE InsertIssue(SortIssues(SubSeq(issues, 1, Len(issues) - 1)), issues[Len(issues)])

RECURSIVE NewIssues(_, _)
NewIssues(github_issues, processed) ==
  IF github_issues = <<>> THEN <<>>
  ELSE (IF Head(github_issues).number \notin processed THEN <<Head(github_issues)>> ELSE <<>>)
       \o NewIssues(Tail(github_issues), processed)

\* The loop that appends the new issues (lines 154-161).
RECURSIVE AppendNew(_, _, _)
AppendNew(new_issues, add_link_tag, st) ==
  IF new_issues = <<>> THEN st
  ELSE AppendNew(Tail(new_issues), add_link_tag,
         [st EXCEPT !.headings = Append(@, IssueToHeading(Head(new_issues), 1, add_link_tag)),
                    !.acts = Append(@, "added"),
                    !.result = AddEntry(@, Head(new_issues).number, Head(new_issues).title,
                                        "added", None)])

\* Lines 148-161: the issues not processed, by number.
AppendNewIssues(github_issues, add_link_tag, st) ==
  IF st.raised THEN st
  ELSE AppendNew(SortIssues(NewIssues(github_issues, st.processed)), add_link_tag, st)

\* OrgMerger.merge(github_issues, existing_headings): the merged headings, the
\* MergeResult, and whether the call raised instead of returning.
Merge(github_issues, existing_headings, add_link_tag) ==
  AppendNewIssues(github_issues, add_link_tag,
    MergeExisting(github_issues, existing_headings, add_link_tag,
      [headings |-> <<>>, acts |-> <<>>, processed |-> {}, raised |-> FALSE,
       result |-> NewMergeResult(Len(github_issues), Len(existing_headings))]))


\* ------------------------------------------------------------------- parser
\* The tail of HEADING_PATTERN after the title: (?:\s+(:[a-zA-Z0-9_@#%:]+:))?\s*$
\* IsCluster(c): c is :[a-zA-Z0-9_@#%:]+:
IsCluster(c) ==
  /\ Len(c) >= 3 /\ c[1] = ":" /\ c[Len(c)] = ":"
  /\ \A i \in 2..(Len(c) - 1) : IsTagChar(c[i])

\* TagsOf(q) is the tag cluster when q is whitespace, a cluster, whitespace; else <<>>.
TagsOf(q) ==
  IF q # <<>> /\ IsSpace(q[1]) /\ IsCluster(Strip(q)) THEN Strip(q) ELSE <<>>

TailMatches(q) == TagsOf(q) # <<>> \/ Strip(q) = <<>>

SetMin(S) == CHOOSE i \in S : \A j \in S : i <= j

\* (.+?) followed by the tail: the shortest title after which the tail matches.
TitleLen(z) == SetMin({t \in 1..Len(z) : TailMatches(DropN(z, t))})

\* [t for t in tags_str.strip(":").split(":") if t]
StripColons(s) ==
  LET keep == {i \in 1..Len(s) : s[i] # ":"}
  IN IF keep = {} THEN <<>>
     ELSE SubSeq(s, CHOOSE i \in keep : \A j \in keep : i <= j,
                    CHOOSE i \in keep : \A j \in keep : i >= j)

RECURSIVE NonEmpty(_)
NonEmpty(parts) ==
  IF parts = <<>> THEN <<>>
  ELSE (IF Head(parts) # <<>> THEN <<Head(parts)>> ELSE <<>>) \o NonEmpty(Tail(parts))

ParseTags(tags_str) ==
  IF tags_str = <<>> THEN <<>> ELSE NonEmpty(SplitOn(StripColons(tags_str), ":"))

\* HEADING_PATTERN.match(line):
\*   ^(\*+)\s+(?:(TODO|DONE)\s+)?(.+?)(?:\s+(:[a-zA-Z0-9_@#%:]+:))?\s*$
\* with the groups of the first match in the regex engine's backtracking order.
NoMatch == [ok |-> FALSE, stars |-> 0, todo_state |-> None, title |-> <<>>, tags_str |-> <<>>]

\* (.+?)(?:\s+(:...:))?\s*$ on st.rest, where the title is the first t characters.
MatchGroups(stars, st, t) ==
  [ok |-> TRUE, stars |-> stars, todo_state |-> st.todo_state, title |-> TakeN(st.rest, t),
   tags_str |-> TagsOf(DropN(st.rest, t))]

MatchTitle(stars, st) == MatchGroups(stars, st, TitleLen(st.rest))

\* (?:(TODO|DONE)\s+)? on x, where v whitespace characters follow the keyword: the
\* group and the text left for the title.  A keyword followed only by whitespace gives
\* up the last whitespace character to the title; a keyword with nothing after it
\* is the title.
MatchAfterKeyword(x, v) ==
  IF v >= 1 /\ Len(x) > 1 + v THEN [todo_state |-> Some(x[1]), rest |-> DropN(x, 1 + v)]
  ELSE IF v >= 2 THEN [todo_state |-> Some(x[1]), rest |-> <<x[1 + v]>>]
  ELSE [todo_state |-> None, rest |-> x]

MatchKeyword(x) ==
  IF x[1] \in {"TODO", "DONE"}
  THEN MatchAfterKeyword(x, RunLen(Tail(x), {c \in Range(x) : ~IsSpace(c)}))
  ELSE [todo_state |-> None, rest |-> x]

\* \s+ on r, which starts with w whitespace characters.  When only whitespace
\* follows the stars, the last whitespace character is the title.
MatchAfterSpace(stars, r, w) ==
  IF w = 0 \/ (w = Len(r) /\ w < 2) THEN NoMatch
  ELSE MatchTitle(stars, IF w = Len(r) THEN [todo_state |-> None, rest |-> <<r[w]>>]
                         ELSE MatchKeyword(DropN(r, w)))

MatchAfterStars(stars, r) ==
  IF stars = 0 THEN NoMatch
  ELSE MatchAfterSpace(stars, r, RunLen(r, {c \in Range(r) : ~IsSpace(c)}))

HeadingMatch(line) ==
  MatchAfterStars(RunLen(line, Range(line) \ {"*"}),
                  DropN(line, RunLen(line, Range(line) \ {"*"})))

IsHeadingLine(line) == HeadingMatch(line).ok

\* PROPERTY_DRAWER_START / PROPERTY_DRAWER_END: ^\s*:PROPERTIES:\s*$, re.IGNORECASE
IsDrawerStart(line) == Upper(Strip(line)) = <<":", "PROPERTIES", ":">>
IsDrawerEnd(line) == Upper(Strip(line)) = <<":", "END", ":">>

\* PROPERTY_LINE.match(line): ^\s*:([A-Za-z0-9_-]+):\s*(.*?)\s*$
PropertyMatch(line) ==
  LET l == LStrip(line)
      colon == Find(Tail(l), <<":">>)
      name == SubSeq(l, 2, colon)
  IN IF l # <<>> /\ l[1] = ":" /\ colon >= 2 /\ \A i \in 1..Len(name) : IsKeyChar(name[i])
     THEN [ok |-> TRUE, name |-> name, value |-> Strip(DropN(l, colon + 1))]
     ELSE [ok |-> FALSE, name |-> <<>>, value |-> <<>>]

\* OrgParser._parse_properties_drawer(lines, start_index); start is 1-based here.
RECURSIVE DrawerLoop(_, _, _, _)
DrawerLoop(lines, i, properties, consumed) ==
  IF i > Len(lines) THEN [properties |-> properties, consumed |-> consumed]
  ELSE IF IsDrawerEnd(lines[i]) THEN [properties |-> properties, consumed |-> consumed + 1]
  ELSE LET m == PropertyMatch(lines[i])
       IN DrawerLoop(lines, i + 1,
                     IF m.ok THEN Put(properties, Upper(m.name), m.value) ELSE properties,
                     consumed + 1)

ParsePropertiesDrawer(lines, start) == DrawerLoop(lines, start + 1, EmptyDict, 1)

\* Number of lines from i on that come before the next heading line (lines 184-199).
RECURSIVE ContentCount(_, _)
ContentCount(lines, i) ==
  IF i > Len(lines) \/ IsHeadingLine(lines[i]) THEN 0 ELSE 1 + ContentCount(lines, i + 1)

\* OrgParser._parse_heading(lines, start_index): the heading (children empty) and the
\* number of lines consumed; start is 1-based, source_line is start_index + 1.
\* m is the match of the heading line, drawer the parsed drawer, n the number of
\* content lines.
ParsedHeading(lines, start, m, drawer, n) ==
  [heading |-> OrgHeading(m.stars, Strip(m.title), m.todo_state, ParseTags(m.tags_str),
                          drawer.properties,
                          RStrip(JoinLines(SubSeq(lines, start + 1 + drawer.consumed,
                                                  start + drawer.consumed + n))),
                          <<>>, Some(start),
                          Some(JoinLines(SubSeq(lines, start, start + drawer.consumed + n)))),
   consumed |-> 1 + drawer.consumed + n]

ParseContent(lines, start, m, drawer) ==
  ParsedHeading(lines, start, m, drawer, ContentCount(lines, start + 1 + drawer.consumed))

ParseHeading(lines, start) ==
  ParseContent(lines, start, HeadingMatch(lines[start]),
               IF start + 1 <= Len(lines) /\ IsDrawerStart(lines[start + 1])
               THEN ParsePropertiesDrawer(lines, start + 1)
               ELSE [properties |-> EmptyDict, consumed |-> 0])

\* The scan of OrgParser.parse_string (lines 95-110): the flat list of headings, or
\* raised when constructing a heading fails validation (level > 10).
RECURSIVE ScanLines(_, _, _)
ScanHeading(lines, i, flat, ph) ==
  ScanLines(lines, i + ph.consumed, Append(flat, ph.heading))

ScanLine(lines, i, flat, m) ==
  IF ~m.ok THEN ScanLines(lines, i + 1, flat)
  ELSE IF ~ValidLevel(m.stars) THEN [raised |-> TRUE, flat |-> flat]
  ELSE ScanHeading(lines, i, flat, ParseHeading(lines, i))

ScanLines(lines, i, flat) ==
  IF i > Len(lines) THEN [raised |-> FALSE, flat |-> flat]
  ELSE ScanLine(lines, i, flat, HeadingMatch(lines[i]))

\* A stack that keeps a heading of the same level as the new one.
RECURSIVE PopStackStrict(_, _, _)
PopStackStrict(stack, flat, level) ==
  IF stack # <<>> /\ flat[stack[Len(stack)]].level > level
  THEN PopStackStrict(SubSeq(stack, 1, Len(stack) - 1), flat, level)
  ELSE stack

\* OrgParser._build_tree(flat_headings).  The stack holds indices into the flat list;
\* ParentOf[i] is the heading that flat[i] is appended to (0: the result list).
RECURSIVE PopStack(_, _, _)
PopStack(stack, flat, level) ==
  IF stack # <<>> /\ flat[stack[Len(stack)]].level >= level
  THEN PopStack(SubSeq(stack, 1, Len(stack) - 1), flat, level)
  ELSE stack

RECURSIVE ParentsLoop(_, _, _, _)
ParentsLoop(flat, i, stack, parents) ==
  IF i > Len(flat) THEN parents
  ELSE LET st == PopStack(stack, flat, flat[i].level)
       IN ParentsLoop(flat, i + 1, Append(st, i),
                      Append(parents, IF st = <<>> THEN 0 ELSE st[Len(st)]))

RECURSIVE ChildrenOf(_, _, _, _)
ChildrenOf(flat, parents, p, i) ==
  IF i > Len(flat) THEN <<>>
  ELSE (IF parents[i] = p
        THEN << [flat[i] EXCEPT !.children = ChildrenOf(flat, parents, i, i + 1)] >>
        ELSE <<>>)
       \o ChildrenOf(flat, parents, p, i + 1)

BuildTree(flat_headings) ==
  ChildrenOf(flat_headings, ParentsLoop(flat_headings, 1, <<>>, <<>>), 0, 1)

\* OrgParser.parse_string(content)
ParsedFile(scan) ==
  [raised |-> scan.raised, headings |-> IF scan.raised THEN <<>> ELSE BuildTree(scan.flat)]

ParseString(content) == ParsedFile(ScanLines(SplitLines(content), 1, <<>>))

\* collect_all_headings(headings): pre-order.
RECURSIVE CollectAllHeadings(_)
CollectAllHeadings(headings) ==
  IF headings = <<>> THEN <<>>
  ELSE <<Head(headings)>> \o CollectAllHeadings(Head(headings).children)
       \o CollectAllHeadings(Tail(headings))


\* ------------------------------------------------------------------- writer
\* The text OrgWriter.write_file builds (lines 486-498): the header, the headings,
\* one trailing newline.  "HEADER" stands for the directive lines of format_file_header,
\* which ends with an empty line.
FileHeader == <<"#", "+", "HEADER", NL>>

RECURSIVE FormatHeadings(_)
FormatHeadings(headings) ==
  IF headings = <<>> THEN <<>>
  ELSE << FormatHeading(Head(headings)) >> \o FormatHeadings(Tail(headings))

FileContent(headings) ==
  RStrip(JoinLines(<< FileHeader >> \o FormatHeadings(headings))) \o <<NL>>

\* -------------------------------------------------------------------- inputs
\* The issue records and the documents that the state machine starts from.
Minutes == 0..MaxMinute
Numbers == 1..MaxNumber
States == {<<"open">>, <<"closed">>}

\* GitHubIssue(...) with the defaults of the model: no body, labels or comments.
BaseIssue(n) ==
  [number |-> n, title |-> <<"a">>, body |-> None, state |-> <<"open">>,
   created_at |-> DateTime(0, 0), updated_at |-> DateTime(1, 0), closed_at |-> None,
   author |-> <<"u">>, assignees |-> <<>>, labels |-> <<>>, milestone |-> None,
   url |-> <<"http://">> \o IntStr(n), comments |-> <<>>]

TimedIssue(n, title, state, updated_at) ==
  [BaseIssue(n) EXCEPT !.title = title, !.state = state, !.updated_at = updated_at,
                       !.closed_at = IF state = <<"closed">> THEN Some(updated_at) ELSE None]

\* Comment(author=..., body=..., created_at=...)
Comment(author, body, created_at) ==
  [author |-> author, body |-> body, created_at |-> created_at]

\* Issue 1 under the title "b", in every state and at every time of the model.
TimedIssues ==
  {TimedIssue(1, <<"b">>, st, DateTime(m, sec)) : st \in States, m \in Minutes, sec \in Seconds}

Bodies ==
  {None, Some(<<>>), Some(<<"b">>), Some(<<"*", SP, "b">>), Some(<<SP, "b", NL>>),
   Some(<<"b", NL, NL, "c">>), Some(<<"*", "*", SP, "b">>)}

LabelLists ==
  {<<>>, << <<"a">> >>, << <<"a">>, <<"a">> >>, << <<"a", SP, "b">> >>, << <<":">> >>,
   << <<"LINK">> >>, << <<"b">>, <<"a">> >>, << <<"a", ":", "b">>, <<"a", "_", "b">> >>,
   << <<"a", "-", "b">> >>}

CommentLists ==
  {<<>>,
   << Comment(<<"u">>, <<"c">>, DateTime(0, 0)) >>,
   << Comment(<<"u">>, <<"c">>, DateTime(1, 0)), Comment(<<"b">>, <<>>, DateTime(0, 30)) >>}

\* An existing heading as an earlier sync wrote it for issue n (tests/test_merger.py
\* builds its fixtures the same way).
SyncedHeading(n) == IssueToHeading(BaseIssue(n), 1, TRUE)

WithProperty(h, key, value) ==
  [h EXCEPT !.properties =
     IF value = None THEN [k \in DOMAIN h.properties \ {key} |-> h.properties[k]]
     ELSE Put(h.properties, key, value[1])]

StoredStates == {None, Some(<<"open">>), Some(<<"closed">>), Some(<<"OPEN">>)}

StoredUpdated ==
  {None}
  \cup {Some(IsoFormat(DateTime(m, sec))) : m \in Minutes, sec \in Seconds}
  \cup {Some(<<"I", DigitAtom(m)>>) : m \in Minutes}
  \cup {Some(FormatTimestamp(DateTime(m, 0))) : m \in Minutes}

\* s with every stored state and stored time.
TimedHeadings(s) ==
  {WithProperty(WithProperty(s, <<"GITHUB_STATE">>, st), <<"GITHUB_UPDATED">>, up) :
     st \in StoredStates, up \in StoredUpdated}

TagLists ==
  {<<>>, << <<"LINK">> >>, << <<"LINK">>, <<"u">> >>, << <<"link">>, <<"u">> >>,
   << <<"u">>, <<"u">>, <<"a">> >>, << <<"a">>, <<"u">>, <<"LINK">> >>}

\* Text after the sync marker, as a user may have typed it.
UserTexts ==
  {<<>>, <<NL, NL, "n">>, <<NL, "n", NL, NL, "m", NL>>, <<NL, SP, SP, "n", SP, NL, NL>>, <<SP, "n">>}

Contents ==
  {<<>>, <<"b">>, <<"n">>}
  \cup {<<"b", NL, NL>> \o SYNC_MARKER \o t : t \in UserTexts}
  \cup {SYNC_MARKER \o t : t \in UserTexts}

PlainHeading(level, title, content, children) ==
  OrgHeading(level, title, None, <<>>, EmptyDict, content, children, None, None)

KeyedHeading(level, title, key, children) ==
  OrgHeading(level, title, None, <<>>, [k \in {<<"GITHUB_NUMBER">>} |-> key], <<>>, children,
             None, None)

\* Children of a level-l heading: user sub-headings, comment headings of an earlier
\* sync, sub-headings that carry a match key of their own.
ChildLists(l) ==
  {<<>>,
   << PlainHeading(l + 1, <<"n">>, <<"c">>, <<>>) >>,
   << CommentHeading(Comment(<<"u">>, <<"c">>, DateTime(0, 0)), l + 1) >>,
   << CommentHeading(Comment(<<"u">>, <<"old">>, DateTime(0, 0)), l + 1),
      PlainHeading(l + 1, <<"n">>, <<>>, << PlainHeading(l + 2, <<"m">>, <<>>, <<>>) >>) >>,
   << KeyedHeading(l + 1, <<"n">>, <<"2">>, <<>>) >>,
   << KeyedHeading(l + 1, <<"Comment by @">>, <<"2">>, <<>>) >>,
   << PlainHeading(l + 1, <<"Comment by @", "n">>, <<"c">>, <<>>) >>}

Levels == {1, 2}

\* The runs that the state machine starts from: <<existing_headings, github_issues,
\* add_link_tag>>, one family per part of the merge; s is the heading that an earlier
\* sync wrote for issue 1.
TimedCases(s) == {<< <<h>>, <<i>>, TRUE >> : h \in TimedHeadings(s), i \in TimedIssues}

TagCases(s) ==
  {<< << [s EXCEPT !.tags = t] >>, << [BaseIssue(1) EXCEPT !.labels = l] >>, link >> :
     t \in TagLists, l \in LabelLists, link \in BOOLEAN}

ContentCases(s) ==
  {<< << [s EXCEPT !.content = c] >>, << [BaseIssue(1) EXCEPT !.body = b] >>, TRUE >> :
     c \in Contents, b \in Bodies}

ChildCases(s) ==
  UNION {
    {<< << [s EXCEPT !.level = l, !.children = c] >>,
        << [BaseIssue(1) EXCEPT !.comments = cm, !.title = t] >>, TRUE >> :
       c \in ChildLists(l), cm \in CommentLists, t \in {<<"a">>, <<"b">>}} :
    l \in Levels}

\* A matched heading at the deepest level that OrgHeading accepts.
DeepCases(s) ==
  {<< << [s EXCEPT !.level = LevelMax] >>, << [BaseIssue(1) EXCEPT !.comments = cm] >>, TRUE >> :
     cm \in CommentLists}

\* Properties that a previous node may carry besides those of the earlier sync: a user
\* property, a user property under the GITHUB_ prefix, a lower-case key, and values of
\* managed keys that the issue may no longer have.
ExtraProperties ==
  {EmptyDict,
   [k \in {<<"CUSTOM">>} |-> <<"x">>],
   [k \in {<<"GITHUB_", "A">>} |-> <<"x">>],
   [k \in {<<"u">>, <<"ASSIGNEES">>, <<"MILESTONE">>, <<"CLOSED">>} |-> <<"b">>],
   [k \in {<<"CUSTOM">>, <<"GITHUB_", "A">>, <<"ASSIGNEES">>, <<"CLOSED">>} |-> <<"x">>]}

WithProperties(h, extra) ==
  [h EXCEPT !.properties = [k \in DOMAIN @ \cup DOMAIN extra |->
                              IF k \in DOMAIN extra THEN extra[k] ELSE @[k]]]

\* Issue 1 with and without assignees, a milestone, a closing time.
DetailedIssues ==
  {[BaseIssue(1) EXCEPT !.title = <<"b">>, !.assignees = a, !.milestone = m, !.state = c[1],
                        !.closed_at = c[2]] :
     a \in {<<>>, << <<"u">> >>, << <<"u">>, <<"b">> >>},
     m \in {None, Some(<<"a">>)},
     c \in {<< <<"open">>, None >>, << <<"closed">>, Some(DateTime(1, 0)) >>}}

PropertyCases(s) ==
  {<< << WithProperties(s, e) >>, <<i>>, TRUE >> : e \in ExtraProperties, i \in DetailedIssues}

\* Top-level headings of a document: user headings, headings whose GITHUB_NUMBER is
\* written differently or is no number, a user heading with a synced sub-heading, and
\* headings synced for an issue (up to date, or with an older title).
ForestHeadings ==
  {PlainHeading(1, <<"n">>, <<"c">>, <<>>),
   PlainHeading(1, <<"n">>, <<>>, << KeyedHeading(2, <<"a">>, <<"1">>, <<>>) >>),
   KeyedHeading(1, <<"a">>, <<"0", "1">>, <<>>),
   KeyedHeading(1, <<"a">>, <<"x">>, <<>>)}
  \cup {[h EXCEPT !.title = t] : h \in {SyncedHeading(n) : n \in Numbers}, t \in {<<"a">>, <<"b">>}}

SeqsUpTo(S, n) == UNION {[1..k -> S] : k \in 0..n}

Injective(f) == \A i, j \in DOMAIN f : f[i] = f[j] => i = j

\* Issue lists with pairwise distinct numbers, in every order.
IssueLists ==
  {[i \in DOMAIN ns |-> BaseIssue(ns[i])] : ns \in {f \in SeqsUpTo(Numbers, MaxNumber) : Injective(f)}}

ForestCases ==
  {<<f, l, link>> : f \in SeqsUpTo(ForestHeadings, MaxHeadings), l \in IssueLists, link \in BOOLEAN}

CasesOf(s) ==
  TimedCases(s) \cup TagCases(s) \cup ContentCases(s) \cup ChildCases(s) \cup DeepCases(s)
    \cup PropertyCases(s)

\* An empty document and an issue with labels: the issue is added.
AddedCases ==
  {<< <<>>, << [BaseIssue(1) EXCEPT !.labels = l] >>, link >> :
     l \in LabelLists, link \in BOOLEAN}

Cases == ForestCases \cup AddedCases \cup UNION {CasesOf(s) : s \in {SyncedHeading(1)}}

\* Documents found on disk when a run starts (sync.py parses the existing file before it
\* merges): outlines whose heading lines have every sequence of levels up to
\* MaxOutline lines, level skips included; a heading at the deepest level the node
\* type accepts and one star deeper; a property drawer with no end line; text with no
\* heading line.
MaxOutline == 4
MaxOutlineLevel == 3

OutlineLevels == 1..MaxOutlineLevel

\* The i-th heading line of an outline is titled with i letters, so that a title tells
\* the line it came from.
OutlineTitle(i) == [j \in 1..i |-> "a"]

Outline(levels) ==
  JoinLines([i \in DOMAIN levels |-> Stars(levels[i]) \o <<SP>> \o OutlineTitle(i)])

Documents ==
  {Outline(levels) : levels \in SeqsUpTo(OutlineLevels, MaxOutline)}
    \cup {Stars(n) \o <<SP, "a">> : n \in {LevelMax, LevelMax + 1}}
    \cup {JoinLines(<< <<"*", SP, "a">>, <<":", "PROPERTIES", ":">>,
                       <<":", "GITHUB_NUMBER", ":", SP, "1">>, <<>>,
                       <<"*", "*", SP, "b">>, <<"*", SP, "c">> >>),
          JoinLines(<< <<"c">>, <<SP, "*", "a">>, <<"*", "a">> >>)}

\* ------------------------------------------------------------ state machine
\* The state of one run: the configuration (add_link_tag), the fetched issues, the
\* forest given to merge, what merge returned (acts: the branch taken per heading),
\* the document text on disk and the text it replaced.  phase is the step last taken,
\* syncs the number of merges so far.  exists tells whether the output path exists (text
\* is its content), backup_file and temp_file are the contents of the .bak and .tmp
\* paths (None: no such file), options are the arguments of the sync call and what it
\* meets (the repository name is valid, the fetch fails, the document on disk), error is
\* the exception that reached the caller.
VARIABLES add_link_tag, github_issues, existing_headings, merged_headings, acts, result,
          text, old_text, phase, syncs, exists, backup_file, temp_file, options, error

vars == <<add_link_tag, github_issues, existing_headings, merged_headings, acts, result,
          text, old_text, phase, syncs, exists, backup_file, temp_file, options, error>>

\* sync(repo, output_file, dry_run, backup) and its surroundings.
SyncOptions(repo_valid, fetch_error, dry_run, backup, document) ==
  [repo_valid |-> repo_valid, fetch_error |-> fetch_error, dry_run |-> dry_run,
   backup |-> backup, document |-> document]

Init ==
  /\ \/ /\ \E c \in Cases :
             existing_headings = c[1] /\ github_issues = c[2] /\ add_link_tag = c[3]
        /\ text = <<>>
        /\ phase = "start"
     \/ /\ existing_headings = <<>>
        /\ github_issues = << BaseIssue(1) >>
        /\ add_link_tag = TRUE
        /\ text \in Documents
        /\ phase = "written"
  /\ merged_headings = <<>>
  /\ acts = <<>>
  /\ result = NewMergeResult(0, 0)
  /\ old_text = <<>>
  /\ syncs = 0
  /\ exists = (phase = "written")
  /\ backup_file = None
  /\ temp_file = None
  /\ options = SyncOptions(TRUE, FALSE, FALSE, FALSE, IF phase = "written" THEN Some(text) ELSE None)
  /\ error = None

\* A merge that writes the nodes it synthesizes into the list it was given.
MergedInPlace(from, m) ==
  /\ existing_headings' = m.headings
  /\ merged_headings' = m.headings
  /\ acts' = m.acts
  /\ result' = m.result
  /\ phase' = IF m.raised THEN "raised"
              ELSE IF phase = "start" THEN "merged"
              ELSE IF phase = "merged" THEN "remerged"
              ELSE "resynced"
  /\ syncs' = syncs + 1
  /\ UNCHANGED <<add_link_tag, github_issues, text, old_text, exists, backup_file, temp_file,
                 options, error>>

\* merged_headings, result = merger.merge(issues, existing_headings), where m is what
\* the call on the forest from gives.
Merged(from, m) ==
  /\ existing_headings' = from
  /\ merged_headings' = m.headings
  /\ acts' = m.acts
  /\ result' = m.result
  /\ phase' = IF m.raised THEN "raised"
              ELSE IF phase = "start" THEN "merged"
              ELSE IF phase = "merged" THEN "remerged"
              ELSE "resynced"
  /\ syncs' = syncs + 1
  /\ UNCHANGED <<add_link_tag, github_issues, text, old_text, exists, backup_file, temp_file,
                 options, error>>

\* IssueSync.sync merges the issues into the forest built or parsed; a later merge of
\* the same issues takes the output of the merge before it.
MergeStep ==
  /\ phase \in {"start", "merged", "parsed"}
  /\ syncs < MaxSyncs
  /\ Merged(IF phase = "merged" THEN merged_headings ELSE existing_headings,
            Merge(github_issues, IF phase = "merged" THEN merged_headings ELSE existing_headings,
                  add_link_tag))

\* OrgWriter.write_file(merged_headings, path, header)
WriteFile ==
  /\ phase = "merged" \/ (phase = "resynced" /\ syncs < MaxSyncs)
  /\ text' = FileContent(merged_headings)
  /\ old_text' = text
  /\ exists' = TRUE
  /\ phase' = "written"
  /\ UNCHANGED <<add_link_tag, github_issues, existing_headings, merged_headings, acts,
                 result, syncs, backup_file, temp_file, options, error>>

\* OrgParser.parse_file(path), where p is what parse_string gives.
Parsed(p) ==
  /\ existing_headings' = p.headings
  /\ phase' = IF p.raised THEN "raised" ELSE "parsed"
  /\ UNCHANGED <<add_link_tag, github_issues, merged_headings, acts, result, text,
                 old_text, syncs, exists, backup_file, temp_file, options, error>>

ParseFile == phase = "written" /\ Parsed(ParseString(text))

\* Render the parsed forest again, with no merge step in between.
Rewrite ==
  /\ phase = "parsed"
  /\ text' = FileContent(existing_headings)
  /\ old_text' = text
  /\ phase' = "rewritten"
  /\ UNCHANGED <<add_link_tag, github_issues, existing_headings, merged_headings, acts,
                 result, syncs, exists, backup_file, temp_file, options, error>>

Next == MergeStep \/ WriteFile \/ ParseFile \/ Rewrite

Spec == Init /\ [][Next]_vars

\* ------------------------------------------------------------ one sync call
\* IssueSync.sync as one call: validation, fetch, parse of the existing file, merge and
\* the decision to write, and then OrgWriter.write_file as the file operations it makes,
\* each of which may fail with an OSError: the copy to the backup path, the write of the
\* temporary file, the rename to the output path, and the removal of the temporary
\* file after a failure.

\* The document found at the output path: none, a document that an earlier sync wrote,
\* documents with a user heading, and a document that the parser raises on.
SyncDocuments ==
  {None}
    \cup {Some(FileContent(f)) :
            f \in {<< SyncedHeading(1) >>,
                   << PlainHeading(1, <<"n">>, <<"c">>, <<>>) >>,
                   << PlainHeading(1, <<"n">>, <<"c">>, <<>>),
                      [SyncedHeading(1) EXCEPT !.title = <<"b">>] >>}}
    \cup {Some(Stars(LevelMax + 1) \o <<SP, "a">>)}

\* What the provider returns when the fetch succeeds.
SyncIssueLists ==
  {<<>>, << BaseIssue(1) >>, << TimedIssue(1, <<"b">>, <<"closed">>, DateTime(1, 0)) >>,
   << BaseIssue(2), BaseIssue(1) >>}

SyncInit ==
  /\ \E v, f, d, b \in BOOLEAN : \E doc \in SyncDocuments :
       /\ options = SyncOptions(v, f, d, b, doc)
       /\ exists = (doc # None)
       /\ text = IF doc # None THEN doc[1] ELSE <<>>
  /\ github_issues \in SyncIssueLists
  /\ backup_file \in {None, Some(<<"x">>)}
  /\ add_link_tag = TRUE
  /\ existing_headings = <<>>
  /\ merged_headings = <<>>
  /\ acts = <<>>
  /\ result = NewMergeResult(0, 0)
  /\ old_text = <<>>
  /\ temp_file = None
  /\ phase = "called"
  /\ syncs = 0
  /\ error = None

\* MergeResult.has_changes
HasChanges(r) == r.added > 0 \/ r.updated > 0

\* The call ends with the exception e; nothing else changes.
SyncFailed(e) ==
  /\ phase' = "failed"
  /\ error' = Some(e)
  /\ UNCHANGED <<add_link_tag, github_issues, existing_headings, merged_headings, acts,
                 result, text, old_text, syncs, exists, backup_file, temp_file, options>>

\* A sync that writes whenever it is not a dry run.
SyncMergedAlways(p, m) ==
  IF m.raised THEN SyncFailed("ValidationError")
  ELSE /\ existing_headings' = p.headings
       /\ merged_headings' = m.headings
       /\ acts' = m.acts
       /\ result' = m.result
       /\ syncs' = syncs + 1
       /\ phase' = IF options.dry_run THEN "returned" ELSE "write_called"
       /\ UNCHANGED <<add_link_tag, github_issues, text, old_text, exists, backup_file,
                      temp_file, options, error>>

\* sync lines 128-137, where p is the parsed existing file and m what merge gives.
SyncMerged(p, m) ==
  IF m.raised THEN SyncFailed("ValidationError")
  ELSE /\ existing_headings' = p.headings
       /\ merged_headings' = m.headings
       /\ acts' = m.acts
       /\ result' = m.result
       /\ syncs' = syncs + 1
       /\ phase' = IF options.dry_run THEN "returned"
                   ELSE IF HasChanges(m.result) \/ ~exists THEN "write_called"
                   ELSE "returned"
       /\ UNCHANGED <<add_link_tag, github_issues, text, old_text, exists, backup_file,
                      temp_file, options, error>>

SyncParsed(p) ==
  IF p.raised THEN SyncFailed("ValidationError")
  ELSE SyncMerged(p, Merge(github_issues, p.headings, add_link_tag))

\* sync lines 101-137: _validate_repo, fetch_issues, parse_file, merge, dry_run, and
\* the test before the write.
SyncCall ==
  /\ phase = "called"
  /\ IF ~options.repo_valid THEN SyncFailed("InvalidRepositoryError")
     ELSE IF options.fetch_error THEN SyncFailed("FetchError")
     ELSE SyncParsed(IF exists THEN ParseString(text) ELSE [raised |-> FALSE, headings |-> <<>>])

\* What a write that fails may leave at its path: nothing written yet, or a part.
Partial(content) == {<<>>, TakeN(content, Len(content) \div 2)}

\* A write_file that goes on to the write without copying the document.
SkipBackup ==
  /\ phase = "write_called"
  /\ phase' = "backed_up"
  /\ UNCHANGED <<add_link_tag, github_issues, existing_headings, merged_headings, acts,
                 result, text, old_text, syncs, exists, temp_file, backup_file, options,
                 error>>

\* write_file lines 476-483: shutil.copy2(path, backup_path)
CreateBackup ==
  /\ phase = "write_called"
  /\ IF options.backup /\ exists
     THEN \/ backup_file' = Some(text) /\ phase' = "backed_up" /\ error' = error
          \/ /\ backup_file' \in {backup_file} \cup {Some(t) : t \in Partial(text)}
             /\ phase' = "failed"
             /\ error' = Some("OrgBackupError")
     ELSE backup_file' = backup_file /\ phase' = "backed_up" /\ error' = error
  /\ UNCHANGED <<add_link_tag, github_issues, existing_headings, merged_headings, acts,
                 result, text, old_text, syncs, exists, temp_file, options>>

\* A write of the content straight to the output path.
WriteInPlace(content) ==
  /\ \/ text' = content /\ phase' = "returned"
     \/ text' \in Partial(content) /\ phase' = "cleaning"
  /\ exists' = TRUE
  /\ UNCHANGED <<add_link_tag, github_issues, existing_headings, merged_headings, acts,
                 result, old_text, syncs, temp_file, backup_file, options, error>>

\* write_file lines 485-508: the content, mkdir and temp_path.write_text(content)
WriteTempFile(content) ==
  /\ \/ temp_file' = Some(content) /\ phase' = "temp_written"
     \/ temp_file' \in {None} \cup {Some(t) : t \in Partial(content)} /\ phase' = "cleaning"
  /\ UNCHANGED <<add_link_tag, github_issues, existing_headings, merged_headings, acts,
                 result, text, old_text, syncs, exists, backup_file, options, error>>

WriteTemp == phase = "backed_up" /\ WriteTempFile(FileContent(merged_headings))

\* write_file line 511: temp_path.replace(path)
Replace ==
  /\ phase = "temp_written"
  /\ \/ /\ text' = temp_file[1]
        /\ old_text' = text
        /\ exists' = TRUE
        /\ temp_file' = None
        /\ phase' = "returned"
     \/ phase' = "cleaning" /\ UNCHANGED <<text, old_text, exists, temp_file>>
  /\ UNCHANGED <<add_link_tag, github_issues, existing_headings, merged_headings, acts,
                 result, syncs, backup_file, options, error>>

\* write_file lines 515-519: the temporary file is removed and OrgWriteError raised.
Cleanup ==
  /\ phase = "cleaning"
  /\ temp_file' = None
  /\ phase' = "failed"
  /\ error' = Some("OrgWriteError")
  /\ UNCHANGED <<add_link_tag, github_issues, existing_headings, merged_headings, acts,
                 result, text, old_text, syncs, exists, backup_file, options>>

SyncNext == SyncCall \/ CreateBackup \/ WriteTemp \/ Replace \/ Cleanup

SyncSpec == SyncInit /\ [][SyncNext]_vars

\* --------------------------------------------------------------- properties
\* merge has returned (it did not raise): existing_headings is the forest it was given,
\* merged_headings the forest it returned.
Returned == phase \in {"merged", "remerged", "resynced"}

\* The nodes of a forest at every depth.
Nodes(forest) == Range(CollectAllHeadings(forest))

\* The values of the GITHUB_NUMBER property in a forest, as written.
KeyValues(forest) ==
  {h.properties[<<"GITHUB_NUMBER">>] :
     h \in {x \in Nodes(forest) : <<"GITHUB_NUMBER">> \in DOMAIN x.properties}}

\* The issue identifiers that the nodes of a forest carry (OrgHeading.github_number).
Identifiers(forest) ==
  {GithubNumber(h)[1] : h \in {x \in Nodes(forest) : GithubNumber(x) # None}}

\* The previous top-level node i without the children that an update replaces by the
\* comments of the issue.
TitledAsComment(h) == StartsWith(h.title, <<"Comment by @">>)

NotTitledAsComment(h) == ~TitledAsComment(h)

Retained(i) ==
  IF acts[i] = "updated"
  THEN [existing_headings[i] EXCEPT !.children = SelectSeq(@, NotTitledAsComment)]
  ELSE existing_headings[i]

Unkeyed(h) == <<"GITHUB_NUMBER">> \notin DOMAIN h.properties

NodesFor(forest, n) ==
  LET all == CollectAllHeadings(forest)
  IN {k \in 1..Len(all) : GithubNumber(all[k]) = Some(n)}

\* C3 as stated: the issue numbers being pairwise distinct, the returned forest has,
\* counting the nodes at every depth, exactly one node whose match key is the number of
\* each issue.
C3_OneNodePerIssue ==
  (Returned /\ Injective([k \in 1..Len(github_issues) |-> github_issues[k].number])) =>
    \A k \in 1..Len(github_issues) :
      Cardinality(NodesFor(merged_headings, github_issues[k].number)) = 1

\* C4 as stated: merging the same issues into the forest that a merge returned reports
\* no added and no updated entry and returns that forest.
C4_Idempotent ==
  phase = "remerged" =>
    /\ result.added = 0
    /\ result.updated = 0
    /\ merged_headings = existing_headings

\* The issue that the previous top-level node i is matched to.
IssueOf(i) == IndexGet(github_issues, GithubNumber(existing_headings[i])[1])

\* The escaped body of an issue, empty when the issue has none.
EscapedBody(issue) ==
  IF issue.body # None /\ issue.body[1] # <<>>
  THEN EscapeOrgContent(Strip(issue.body[1])) ELSE <<>>

HasMarker(content) == Find(content, SYNC_MARKER) # 0

\* The text T after the first sync marker of a content.
AfterMarker(content) == DropN(content, Find(content, SYNC_MARKER) - 1 + Len(SYNC_MARKER))

EndsWith(s, p) == Len(p) <= Len(s) /\ SubSeq(s, Len(s) - Len(p) + 1, Len(s)) = p

TrailingContent(issue, t) ==
  IF Strip(t) = <<>> THEN RStrip(EscapedBody(issue))
  ELSE (IF issue.body # None /\ issue.body[1] # <<>>
        THEN EscapedBody(issue) \o <<NL, NL>> ELSE <<NL>>) \o Strip(t)

C6_RoundTrip == phase = "rewritten" => text = old_text

\* The issue numbers that match no top-level node of the previous forest.
Unmatched ==
  {github_issues[k].number : k \in 1..Len(github_issues)}
    \ {GithubNumber(existing_headings[i])[1] :
         i \in {j \in 1..Len(existing_headings) : GithubNumber(existing_headings[j]) # None}}

\* C7: the returned forest has, at the position of each previous top-level node, that
\* node or the node synthesized for it from its issue, followed by one added node per
\* issue that matched no previous top-level node, in ascending order of issue number.
C7_Ordering ==
  Returned =>
    LET n == Len(existing_headings)
        added == (n + 1)..Len(merged_headings)
    IN /\ Len(merged_headings) >= n
       /\ \A i \in 1..n :
            \/ merged_headings[i] = existing_headings[i]
            \/ /\ acts[i] = "updated"
               /\ merged_headings[i]
                    = MergedHeading(IssueOf(i), existing_headings[i], add_link_tag)
       /\ \A i \in added : acts[i] = "added" /\ GithubNumber(merged_headings[i]) # None
       /\ \A i, j \in added :
            i < j => GithubNumber(merged_headings[i])[1] < GithubNumber(merged_headings[j])[1]
       /\ {GithubNumber(merged_headings[i])[1] : i \in added} = Unmatched

\* A previous node is followed by two added nodes whose issues were listed in
\* descending order of number.
C7_Witness ==
  /\ Returned
  /\ Len(existing_headings) >= 1
  /\ Len(merged_headings) >= Len(existing_headings) + 2
  /\ github_issues[1].number > github_issues[2].number

\* The entry of the MergeResult for position i of the returned forest: preserved
\* headings have no entry.
EntryOf(i) == result.entries[Cardinality({j \in 1..i : acts[j] # "preserved"})]

\* C8: a node that merge reports as updated or added has the title of its issue, is DONE
\* exactly when the issue is closed and TODO otherwise, carries the issue number as its
\* match key, and has the level of the node it replaces (updated) or level 1 (added).
C8_SynthesizedFields ==
  Returned =>
    \A i \in 1..Len(merged_headings) :
      acts[i] \in {"updated", "added"} =>
        LET issue == IndexGet(github_issues, EntryOf(i).issue_number)
            node == merged_headings[i]
        IN /\ EntryOf(i).action = acts[i]
           /\ node.title = issue.title
           /\ (node.todo_state = Some("DONE")) <=> (issue.state = <<"closed">>)
           /\ node.todo_state \in {Some("DONE"), Some("TODO")}
           /\ <<"GITHUB_NUMBER">> \in DOMAIN node.properties
           /\ node.properties[<<"GITHUB_NUMBER">>] = IntStr(issue.number)
           /\ GithubNumber(node) = Some(issue.number)
           /\ node.level = IF acts[i] = "updated" THEN existing_headings[i].level ELSE 1

\* A node updated from a closed issue with another title.
C8_Witness ==
  /\ Returned
  /\ \E i \in 1..Len(existing_headings) :
       /\ acts[i] = "updated"
       /\ IssueOf(i).state = <<"closed">>
       /\ IssueOf(i).title # existing_headings[i].title
       /\ existing_headings[i].todo_state = Some("TODO")

\* The positions of the previous top-level nodes that are matched to an issue.
MatchedPositions ==
  {i \in 1..Len(existing_headings) :
     /\ GithubNumber(existing_headings[i]) # None
     /\ InIndex(github_issues, GithubNumber(existing_headings[i])[1])}

\* The stored modification time of node i is readable and, to the minute, not older than
\* that of its issue.
StoredFresh(i) ==
  /\ GithubUpdated(existing_headings[i]) # None
  /\ ~DtGreater(TruncMinute(IssueOf(i).updated_at),
                TruncMinute(GithubUpdated(existing_headings[i])[1]))

\* The stored state of node i, as written; None when the node has no GITHUB_STATE.
StoredState(i) ==
  IF <<"GITHUB_STATE">> \in DOMAIN existing_headings[i].properties
  THEN Some(existing_headings[i].properties[<<"GITHUB_STATE">>]) ELSE None

\* Node i is kept: the returned node is the previous node and is reported unchanged.
Kept(i) == merged_headings[i] = existing_headings[i] /\ acts[i] = "unchanged"

\* Node i is synthesized again from its issue: merge returns what the comparison of the
\* previous node with the synthesized node gives.
Resynthesized(i) ==
  [heading |-> merged_headings[i], action |-> acts[i]]
    = CompareHeadings(existing_headings[i],
                      MergedHeading(IssueOf(i), existing_headings[i], add_link_tag))

\* C9 as stated: a matched node is kept when its stored time is readable and not older
\* than the issue's, to the minute, and its stored state string equals the issue's state;
\* in every other case it is synthesized again.
C9_SkipRuleAsStated ==
  Returned =>
    \A i \in MatchedPositions :
      IF StoredFresh(i) /\ StoredState(i) = Some(IssueOf(i).state)
      THEN Kept(i) ELSE Resynthesized(i)

\* C9 amended: a matched node is kept when its stored time is readable and not older
\* than the issue's, to the minute, and its stored state, in lower case, equals the
\* issue's state; in every other case it is synthesized again, and the synthesized node
\* is returned as updated unless it renders like the previous node, which is then
\* returned unchanged.
C9_SkipRule ==
  Returned =>
    \A i \in MatchedPositions :
      IF StoredFresh(i) /\ StoredState(i) # None /\ Lower(StoredState(i)[1]) = IssueOf(i).state
      THEN Kept(i) ELSE Resynthesized(i)

\* A node kept although its title differs from the issue's and its stored state is the
\* issue's state in upper case.
C9_Witness ==
  /\ Returned
  /\ \E i \in MatchedPositions :
       /\ StoredFresh(i)
       /\ StoredState(i) = Some(Upper(IssueOf(i).state))
       /\ IssueOf(i).title # existing_headings[i].title
       /\ Kept(i)

\* cs without the elements that occur earlier in it.
FirstOccurrences(cs) ==
  LET keep == {k \in 1..Len(cs) : \A j \in 1..(k - 1) : cs[j] # cs[k]}
      pos == [k \in 1..Cardinality(keep) |->
                CHOOSE x \in keep : Cardinality({y \in keep : y <= x}) = k]
  IN [k \in 1..Cardinality(keep) |-> cs[pos[k]]]

LinkTags == IF add_link_tag THEN << <<"LINK">> >> ELSE <<>>

\* The sanitized label names of an issue, in the order of the labels.
Sanitized(issue) == [k \in 1..Len(issue.labels) |-> CleanTag(issue.labels[k])]

\* The tags of ts that are not in the set S.
Without(ts, S) ==
  LET keep == {k \in 1..Len(ts) : ts[k] \notin S}
      pos == [k \in 1..Cardinality(keep) |->
                CHOOSE x \in keep : Cardinality({y \in keep : y <= x}) = k]
  IN [k \in 1..Cardinality(keep) |-> ts[pos[k]]]

\* C10 as stated: the tags of an updated node are the link tag if enabled, the
\* sanitized label names, then the previous tags that are neither the link tag nor a
\* sanitized label; so every previous tag but the link tag is a tag of the updated node.
C10_TagsAsStated ==
  Returned =>
    \A i \in 1..Len(existing_headings) :
      acts[i] = "updated" =>
        /\ merged_headings[i].tags
             = LinkTags \o Sanitized(IssueOf(i))
                 \o Without(existing_headings[i].tags,
                            {<<"LINK">>} \cup Range(Sanitized(IssueOf(i))))
        /\ Range(existing_headings[i].tags) \ {<<"LINK">>}
             \subseteq Range(merged_headings[i].tags)

\* C10 amended: the tags of an updated node are the first occurrences in: the link tag
\* if enabled, the non-empty sanitized label names, then the previous tags that are
\* neither LINK in any letter case nor a sanitized label; so every previous tag that is
\* not LINK in any letter case is a tag of the updated node.
C10_Tags ==
  Returned =>
    \A i \in 1..Len(existing_headings) :
      acts[i] = "updated" =>
        /\ merged_headings[i].tags
             = FirstOccurrences(
                 LinkTags \o Without(Sanitized(IssueOf(i)), {<<>>})
                   \o Without(existing_headings[i].tags,
                              {t \in Range(existing_headings[i].tags) : Upper(t) = <<"LINK">>}
                                \cup Range(Sanitized(IssueOf(i)))))
        /\ {t \in Range(existing_headings[i].tags) : Upper(t) # <<"LINK">>}
             \subseteq Range(merged_headings[i].tags)

\* An updated node that had a user tag twice and a tag of its issue, and whose issue
\* has labels.
C10_Witness ==
  /\ Returned
  /\ \E i \in 1..Len(existing_headings) :
       /\ acts[i] = "updated"
       /\ IssueOf(i).labels # <<>>
       /\ \E j, k \in 1..Len(existing_headings[i].tags) :
            j < k /\ existing_headings[i].tags[j] = existing_headings[i].tags[k]
       /\ Range(existing_headings[i].tags) \cap Range(Sanitized(IssueOf(i))) # {}
       /\ Range(existing_headings[i].tags) \ Range(Sanitized(IssueOf(i))) # {}

\* The keys that C11 names as managed.
NamedManagedKeys ==
  {<<"GITHUB_NUMBER">>, <<"URL">>, <<"GITHUB_STATE">>, <<"GITHUB_UPDATED">>, <<"CREATED">>,
   <<"AUTHOR">>, <<"ASSIGNEES">>, <<"MILESTONE">>, <<"CLOSED">>}

\* The managed keys that an updated node has for an issue, with their values.
FreshValues(issue) ==
  [k \in {<<"GITHUB_NUMBER">>, <<"URL">>, <<"GITHUB_STATE">>, <<"GITHUB_UPDATED">>,
          <<"CREATED">>, <<"AUTHOR">>}
         \cup (IF issue.assignees # <<>> THEN {<<"ASSIGNEES">>} ELSE {})
         \cup (IF issue.milestone # None THEN {<<"MILESTONE">>} ELSE {})
         \cup (IF issue.closed_at # None THEN {<<"CLOSED">>} ELSE {}) |->
     CASE k = <<"GITHUB_NUMBER">> -> IntStr(issue.number)
       [] k = <<"URL">> -> issue.url
       [] k = <<"GITHUB_STATE">> -> issue.state
       [] k = <<"GITHUB_UPDATED">> -> FormatTimestamp(issue.updated_at)
       [] k = <<"CREATED">> -> FormatTimestamp(issue.created_at)
       [] k = <<"AUTHOR">> -> issue.author
       [] k = <<"ASSIGNEES">> -> Join(issue.assignees, <<",", SP>>)
       [] k = <<"MILESTONE">> -> issue.milestone[1]
       [] OTHER -> FormatTimestamp(issue.closed_at[1])]

\* The properties of an updated node are the fresh values and the previous properties
\* under the keys of kept.
ReconciledProperties(i, kept) ==
  /\ DOMAIN merged_headings[i].properties = kept \cup DOMAIN FreshValues(IssueOf(i))
  /\ \A k \in DOMAIN FreshValues(IssueOf(i)) :
       merged_headings[i].properties[k] = FreshValues(IssueOf(i))[k]
  /\ \A k \in kept : merged_headings[i].properties[k] = existing_headings[i].properties[k]

\* C11 as stated: the properties of an updated node are the previous properties whose
\* key is none of the managed keys (match key, URL, state, modification and creation
\* time, author, assignees, milestone, closing time), unchanged, and fresh values for the
\* managed keys.
C11_PropertiesAsStated ==
  Returned =>
    \A i \in 1..Len(existing_headings) :
      acts[i] = "updated" =>
        ReconciledProperties(i, DOMAIN existing_headings[i].properties \ NamedManagedKeys)

\* C11 amended: the properties of an updated node are the previous properties whose key
\* neither starts with GITHUB_ nor is URL, CREATED, AUTHOR, ASSIGNEES, MILESTONE or
\* CLOSED, unchanged, and fresh values for the managed keys; ASSIGNEES, MILESTONE and
\* CLOSED are present only when the issue has them.
C11_Properties ==
  Returned =>
    \A i \in 1..Len(existing_headings) :
      acts[i] = "updated" =>
        ReconciledProperties(i, {k \in DOMAIN existing_headings[i].properties :
                                   ~IsGithubKey(k) /\ k \notin github_managed})

\* An updated node that had a user property, a user property under the GITHUB_ prefix
\* and assignees, and whose issue has no assignees.
C11_Witness ==
  /\ Returned
  /\ \E i \in 1..Len(existing_headings) :
       /\ acts[i] = "updated"
       /\ {<<"CUSTOM">>, <<"GITHUB_", "A">>, <<"ASSIGNEES">>}
            \subseteq DOMAIN existing_headings[i].properties
       /\ IssueOf(i).assignees = <<>>
       /\ IssueOf(i).milestone # None

\* The comments of an issue by creation time, comments of one time in the order of the
\* issue record.
ByCreation(comments) ==
  LET before(m, j) ==
        \/ DtKey(comments[m].created_at) < DtKey(comments[j].created_at)
        \/ (DtKey(comments[m].created_at) = DtKey(comments[j].created_at) /\ m < j)
      at(k) == CHOOSE j \in 1..Len(comments) :
                 Cardinality({m \in 1..Len(comments) : before(m, j)}) = k - 1
  IN [k \in 1..Len(comments) |-> comments[at(k)]]

\* The child synthesized for a comment under a node of the given level.
ExpectedCommentChild(comment, level) ==
  [level |-> level + 1,
   title |-> <<"Comment by @">> \o comment.author \o <<SP>> \o FormatTimestamp(comment.created_at),
   todo_state |-> None, tags |-> <<>>, properties |-> EmptyDict,
   content |-> IF comment.body # <<>> THEN EscapeOrgContent(Strip(comment.body)) ELSE <<>>,
   children |-> <<>>, source_line |-> None, raw_text |-> None]

C12_WitnessNoComments ==
  /\ Returned
  /\ \E i \in 1..Len(existing_headings) :
       /\ acts[i] = "updated"
       /\ IssueOf(i).comments = <<>>
       /\ \E c \in Range(existing_headings[i].children) : NotTitledAsComment(c)

\* The previous top-level nodes that carry a match key which is no valid integer or
\* is the number of no issue.
UnmatchedKeyed ==
  {i \in 1..Len(existing_headings) :
     /\ ~Unkeyed(existing_headings[i])
     /\ \/ ParseInt(existing_headings[i].properties[<<"GITHUB_NUMBER">>]) = None
        \/ \A k \in 1..Len(github_issues) :
             Some(github_issues[k].number)
               # ParseInt(existing_headings[i].properties[<<"GITHUB_NUMBER">>])}

\* C13: a previous node whose match key is the number of no issue, or is no valid
\* integer, is returned as it is at its position and counted as preserved; it makes
\* merge neither raise nor report an error.
C13_UnmatchedPreserved ==
  /\ Returned =>
       /\ \A i \in UnmatchedKeyed :
            merged_headings[i] = existing_headings[i] /\ acts[i] = "preserved"
       /\ result.preserved = Cardinality({i \in 1..Len(acts) : acts[i] = "preserved"})
       /\ result.errors = <<>>
  /\ (phase = "raised" /\ syncs = 1 /\ text = <<>>) => MatchedPositions # {}

\* A forest with a node keyed by a number that no issue has and a node whose key is no
\* integer, merged with a non-empty issue list.
C13_Witness ==
  /\ Returned
  /\ github_issues # <<>>
  /\ \E i, j \in UnmatchedKeyed :
       /\ GithubNumber(existing_headings[i]) = None
       /\ GithubNumber(existing_headings[j]) # None

\* The previous top-level nodes whose match key is the number of an issue and is
\* carried by a node earlier in document order.
LaterDuplicates ==
  {i \in MatchedPositions :
     \E n \in Nodes(SubSeq(existing_headings, 1, i - 1)) :
       GithubNumber(n) = GithubNumber(existing_headings[i])}

\* C14 as stated: of the nodes that carry the number of one issue, merge reconciles the
\* first in document order only; each later one is returned as it is and counted as
\* preserved.
C14_FirstDuplicateOnly ==
  Returned =>
    \A i \in LaterDuplicates :
      merged_headings[i] = existing_headings[i] /\ acts[i] = "preserved"

\* C15: after a merge the four counters add up to the number of top-level nodes
\* returned, the counters other than added add up to the number of top-level nodes
\* given, and the two totals are the sizes of the two inputs.
C15_Accounting ==
  Returned =>
    /\ result.added + result.updated + result.unchanged + result.preserved
         = Len(merged_headings)
    /\ result.updated + result.unchanged + result.preserved = Len(existing_headings)
    /\ result.total_github_issues = Len(github_issues)
    /\ result.total_org_headings = Len(existing_headings)

C15_Witness ==
  Returned /\ result.added > 0 /\ result.updated > 0 /\ result.preserved > 0

C15_WitnessUnchanged ==
  Returned /\ result.added > 0 /\ result.unchanged > 0 /\ result.preserved > 0

\* The forest that the next merge call is given.
MergeInput == IF phase = "merged" THEN merged_headings ELSE existing_headings

C16_WitnessVerbatim ==
  /\ Returned
  /\ \E i \in 1..Len(acts) :
       acts[i] = "updated" /\ existing_headings[i].raw_text # None

\* C17 as stated: parse_string returns a forest and does not raise, whatever the text
\* of the document is: heading lines with any number of stars, a drawer with no end
\* line, text with no heading line (the forest is then empty).
C17_ParsingNeverFails ==
  phase = "written" =>
    /\ ~ParseString(text).raised
    /\ (\A l \in Range(SplitLines(text)) : l = <<>> \/ l[1] # "*")
         => ParseString(text).headings = <<>>

\* The nodes of a forest, parents before children and siblings in order, each with its
\* line, its level and the line and level of its parent (0 for a top-level node).
RECURSIVE Outlined(_, _, _)
Outlined(forest, parent_line, parent_level) ==
  IF forest = <<>> THEN <<>>
  ELSE << [line |-> forest[1].source_line[1], level |-> forest[1].level,
           parent_line |-> parent_line, parent_level |-> parent_level] >>
       \o Outlined(forest[1].children, forest[1].source_line[1], forest[1].level)
       \o Outlined(Tail(forest), parent_line, parent_level)

\* The line of the last node before position k whose level is below the level of the
\* node at k; 0 when there is none.
NearestShallower(seq, k) ==
  LET below == {j \in 1..(k - 1) : seq[j].level < seq[k].level}
  IN IF below = {} THEN 0 ELSE seq[CHOOSE j \in below : \A i \in below : i <= j].line

HeadingLines(lines) == {i \in 1..Len(lines) : lines[i] # <<>> /\ IsHeadingLine(lines[i])}

StarsOf(line) == Cardinality({i \in 1..Len(line) : \A j \in 1..i : line[j] = "*"})

TreeAsDocument(seq, all, lines) ==
  /\ \A k \in 1..Len(seq) :
       /\ seq[k].parent_line = NearestShallower(seq, k)
       /\ seq[k].parent_line # 0 => seq[k].level > seq[k].parent_level
       /\ seq[k].level = StarsOf(lines[seq[k].line])
  /\ \A k \in 1..(Len(seq) - 1) : seq[k].line < seq[k + 1].line
  /\ Len(all) = Len(seq) /\ \A k \in 1..Len(all) : all[k].source_line = Some(seq[k].line)
  /\ (\A i \in 1..Len(lines) : ~IsDrawerStart(lines[i]))
       => {seq[k].line : k \in 1..Len(seq)} = HeadingLines(lines)

\* C18: in the forest parsed from a document, the parent of a heading is the nearest
\* heading before it in the document whose level is strictly smaller (the heading is
\* top-level when there is none), also where levels are skipped; so a child's level is
\* strictly greater than its parent's, and collect_all_headings lists the headings in
\* document order.
C18_TreeBuilding ==
  phase = "parsed" =>
    TreeAsDocument(Outlined(existing_headings, 0, 0), CollectAllHeadings(existing_headings),
                   SplitLines(text))

\* A parsed document in which a heading has a child two levels deeper and, after it, a
\* child one level deeper, and which begins below level 1.
C18_Witness ==
  /\ phase = "parsed"
  /\ \E i \in 1..Len(existing_headings) :
       /\ Len(existing_headings[i].children) >= 2
       /\ existing_headings[i].children[1].level = existing_headings[i].level + 2
       /\ existing_headings[i].children[2].level = existing_headings[i].level + 1

C18_WitnessTopLevels ==
  /\ phase = "parsed"
  /\ Len(existing_headings) >= 2
  /\ existing_headings[1].level > existing_headings[2].level

\* The issue that the returned node i carries the number of.
IssueFor(i) == IndexGet(github_issues, GithubNumber(merged_headings[i])[1])

\* The content has the sync marker after the escaped body of the issue and before the
\* text carried forward from the previous content.
MarkerBetween(content, body, carried) ==
  /\ HasMarker(content)
  /\ StartsWith(content, body)
  /\ Find(content, SYNC_MARKER) > Len(body)
  /\ EndsWith(AfterMarker(content), carried)

\* C19 as stated: the content of every node that merge synthesizes, added or updated,
\* has the sync marker line after the body taken from the issue and before the user text
\* carried forward from the previous node.
C19_MarkerWritten ==
  Returned =>
    \A i \in 1..Len(acts) :
      acts[i] \in {"added", "updated"} =>
        MarkerBetween(merged_headings[i].content, EscapedBody(IssueFor(i)),
                      IF acts[i] = "updated" /\ HasMarker(existing_headings[i].content)
                      THEN Strip(AfterMarker(existing_headings[i].content)) ELSE <<>>)

\* The skip rule applies to node i: its stored time is readable and not older than the
\* issue's, to the minute, and its stored state is the issue's state in any letter case.
Skipped(i) ==
  StoredFresh(i) /\ StoredState(i) # None /\ Lower(StoredState(i)[1]) = IssueOf(i).state

\* A line without its trailing whitespace, runs of spaces collapsed when it is a heading
\* line.
NormalLine(line) ==
  LET inked == {k \in 1..Len(line) : ~IsSpace(line[k])}
      l == IF inked = {} THEN <<>>
           ELSE SubSeq(line, 1, CHOOSE k \in inked : \A j \in inked : k >= j)
  IN IF IsHeadingLine(l)
     THEN SelectSeq([k \in 1..Len(l) |-> IF l[k] = SP /\ k > 1 /\ l[k - 1] = SP THEN "" ELSE l[k]],
                    LAMBDA c : c # "")
     ELSE l

\* The lines without the empty ones at the beginning and at the end.
Trimmed(lines) ==
  LET full == {k \in 1..Len(lines) : lines[k] # <<>>}
  IN IF full = {} THEN <<>>
     ELSE SubSeq(lines, CHOOSE k \in full : \A j \in full : k <= j,
                 CHOOSE k \in full : \A j \in full : k >= j)

\* A rendering with line endings unified, every line normal, and no blank line at the
\* beginning or the end.
Normalized(rendering) ==
  LET lines == SplitLines(NormalizeLineEndings(rendering))
  IN Trimmed([k \in 1..Len(lines) |-> NormalLine(lines[k])])

Detected(previous, synthesized, returned, action) ==
  IF Normalized(FormatHeading(previous)) = Normalized(FormatHeading(synthesized))
  THEN returned = previous /\ action = "unchanged"
  ELSE returned = synthesized /\ action = "updated" /\ returned.raw_text = None

C20_WitnessUpdated ==
  /\ Returned
  /\ \E i \in MatchedPositions :
       ~Skipped(i) /\ acts[i] = "updated" /\ existing_headings[i].raw_text # None

\* The text of a line after its indentation would be read as heading markers (stars and
\* then whitespace), as a comment, or as a key line of a metadata block.
Misread(stripped) ==
  \/ /\ StarsOf(stripped) >= 1
     /\ StarsOf(stripped) < Len(stripped)
     /\ IsSpace(stripped[StarsOf(stripped) + 1])
  \/ StartsWith(stripped, <<"#", SP>>)
  \/ IsDrawerStart(stripped) \/ IsDrawerEnd(stripped)

\* No line of a content can be taken for a heading line or for a delimiter of a
\* metadata block.
SafeContent(content) ==
  \A l \in Range(SplitLines(content)) :
    l # <<>> => ~Misread(LStrip(l)) /\ ~IsHeadingLine(l) /\ ~IsDrawerStart(l) /\ ~IsDrawerEnd(l)

\* The returned nodes that merge built from an issue body alone, and the comment nodes
\* under them.
BuiltFromBodies ==
  {merged_headings[i] :
     i \in {k \in 1..Len(acts) :
              \/ acts[k] = "added"
              \/ acts[k] = "updated" /\ ~HasMarker(existing_headings[k].content)}}

\* C21 as stated: in the content that merge builds from an issue body or a comment body,
\* every line that would be read as heading markers, as a comment or as a key line of a
\* metadata block carries the neutral prefix, so that no line matches the parser's
\* heading pattern or the delimiters of a metadata block.
C21_ContentEscaped ==
  Returned =>
    \A h \in BuiltFromBodies :
      /\ SafeContent(h.content)
      /\ \A k \in 1..Len(h.children) :
           TitledAsComment(h.children[k]) => SafeContent(h.children[k].content)

\* The line that marks a closed task: "CLOSED: " and the inactive timestamp.
ClosedLine(issue) == <<"CLOSED", ":", SP>> \o FormatTimestamp(issue.closed_at[1])

\* C22 as stated, for the nodes that merge produces: the text that format_heading
\* renders for a node synthesized for a closed issue with a closing time has a line
\* "CLOSED: " followed by the inactive timestamp.
C22_ClosedLineRendered ==
  Returned =>
    \A i \in 1..Len(acts) :
      (/\ acts[i] \in {"added", "updated"}
       /\ IssueFor(i).state = <<"closed">>
       /\ IssueFor(i).closed_at # None)
        => \E l \in Range(SplitLines(FormatHeading(merged_headings[i]))) :
             LStrip(l) = ClosedLine(IssueFor(i))

\* The output path is as the call found it: absent, or with the document it had.
PreviousDocument ==
  /\ exists = (options.document # None)
  /\ exists => text = options.document[1]

\* The output path holds the whole document rendered from what merge returned.
NewDocument == exists /\ text = FileContent(merged_headings)

\* C23: at every point of a sync call, during and after write_file, the output path holds
\* the complete previous document or the complete new one; when the write of the temporary
\* file or the rename fails, OrgWriteError is raised, the temporary file is gone and the
\* output path is as before.
C23_AtomicWrite ==
  /\ [](/\ PreviousDocument \/ (NewDocument /\ phase = "returned")
        /\ phase = "cleaning" => PreviousDocument
        /\ (phase = "failed" /\ error = Some("OrgWriteError"))
             => temp_file = None /\ PreviousDocument)
  /\ [][phase = "cleaning" => (phase' = "failed" /\ error' = Some("OrgWriteError"))]_vars

\* A call that met a failing write or rename over an existing document, and a call that
\* replaced an existing document by another.
C23_Witness ==
  /\ phase = "failed" /\ error = Some("OrgWriteError")
  /\ options.document # None
  /\ FileContent(merged_headings) # text

C23_WitnessReplaced ==
  phase = "returned" /\ options.document # None /\ text # options.document[1]

\* C24 as stated: in every node that merge synthesizes, added or updated, no tag occurs
\* twice, and every label of the issue whose sanitized name is not empty is present as
\* that name, which has no colon and no whitespace; also for repeated labels, labels
\* with the same sanitized name and a label named like the link tag.
C24_TagInvariant ==
  Returned =>
    \A i \in 1..Len(acts) :
      acts[i] \in {"added", "updated"} =>
        /\ \A j, k \in 1..Len(merged_headings[i].tags) :
             merged_headings[i].tags[j] = merged_headings[i].tags[k] => j = k
        /\ \A l \in Range(Sanitized(IssueFor(i))) :
             l # <<>> => /\ l \in Range(merged_headings[i].tags)
                         /\ \A c \in Range(l) : c # ":" /\ ~IsSpace(c)

OneNodePerLine(seq, lines) ==
  /\ Len(seq) = Cardinality(HeadingLines(lines))
  /\ {seq[k].line : k \in 1..Len(seq)} = HeadingLines(lines)
  /\ \A k \in 1..Len(seq) : seq[k].level = StarsOf(lines[seq[k].line])

\* C25 as stated: the forest parsed from a document has exactly one node for every line
\* that matches the heading pattern, at the level given by the stars of the line, also
\* for a heading line that comes after the start line of a metadata block that has no
\* end line.
C25_OneNodePerHeadingLine ==
  phase = "parsed" => OneNodePerLine(Outlined(existing_headings, 0, 0), SplitLines(text))

\* The run is one that may write: the repository name is valid, the fetch succeeded, it
\* is no dry run, and merge reported an added or updated entry or the call found no
\* file at the output path.
MayWrite ==
  /\ options.repo_valid /\ ~options.fetch_error /\ ~options.dry_run
  /\ syncs = 1
  /\ result.added > 0 \/ result.updated > 0 \/ options.document = None

\* C26: a sync call changes the output path, the backup or the temporary file only in a
\* run that may write; every other run ends with the files as it found them, and a
\* failed fetch reaches the caller as the exception of the fetch.
C26_WritesOnlyOnChange ==
  /\ [][(text' # text \/ exists' # exists \/ backup_file' # backup_file
           \/ temp_file' # temp_file) => MayWrite]_vars
  /\ []((phase \in {"returned", "failed"} /\ ~MayWrite)
          => PreviousDocument /\ temp_file = None)
  /\ []((phase = "failed" /\ options.repo_valid /\ options.fetch_error)
          => error = Some("FetchError") /\ syncs = 0)
  /\ []((phase = "failed" /\ ~options.repo_valid)
          => error = Some("InvalidRepositoryError"))

\* A run over an existing document that fetched issues, merged them and found nothing
\* added or updated.
C26_Witness ==
  /\ phase = "returned" /\ ~options.dry_run /\ syncs = 1
  /\ options.document # None /\ github_issues # <<>>
  /\ result.added = 0 /\ result.updated = 0 /\ result.unchanged > 0

C26_WitnessDryRun ==
  phase = "returned" /\ options.dry_run /\ result.added > 0 /\ options.document = None

C26_WitnessFetchError ==
  phase = "failed" /\ error = Some("FetchError") /\ github_issues # <<>>

\* The text that the user typed after the sync marker of a content, without the
\* whitespace around it.
UserText(content) == Strip(AfterMarker(content))

\* C27 as stated, for two merges: when the content of a node holds the sync marker
\* followed by user text and two successive merges each update the node from its
\* issue, the content that the second merge returns still contains the user text.
C27_UserTextSurvives ==
  [][(phase = "merged" /\ phase' = "remerged") =>
       \A i \in 1..Len(existing_headings) :
         (/\ acts[i] = "updated" /\ acts'[i] = "updated"
          /\ HasMarker(existing_headings[i].content)
          /\ UserText(existing_headings[i].content) # <<>>)
           => Find(merged_headings'[i].content, UserText(existing_headings[i].content)) # 0]_vars
\* The merge just returned took the forest parsed from the document that an earlier
\* merge of the same issues wrote.
SecondCycle == phase = "resynced" /\ syncs = MaxSyncs

\* C28 as stated: when the output of a merge is rendered to text, parsed again and the
\* same issues are merged into the parsed forest, the merge reports nothing added and
\* nothing updated, and it reads the stored modification time of every matched node as
\* a timestamp that is not older than that of its issue.
C28_SyncFixpoint ==
  SecondCycle =>
    /\ result.added = 0
    /\ result.updated = 0
    /\ \A i \in MatchedPositions : StoredFresh(i)
\* What a reader of the rendering of a node compares: level, title, completion state,
\* tag list and property map.
HeadingFields(h) == <<h.level, h.title, h.todo_state, h.tags, h.properties>>

\* The forest that parse_string reads from the text format_heading renders for node h.
Reparsed(h) == ParseString(FormatHeading(h))

\* The first node parsed from the rendering of h has the fields of h.
ReparsesToItself(h, p) ==
  /\ ~p.raised
  /\ p.headings # <<>>
  /\ HeadingFields(p.headings[1]) = HeadingFields(h)

\* C29 as stated: for every node that merge synthesizes (added or updated), parsing the
\* text that format_heading renders for it yields a node with the same level, title,
\* completion state, tag list and property map.
C29_SynthesizedReparse ==
  phase = "merged" =>
    \A i \in 1..Len(merged_headings) :
      acts[i] \in {"added", "updated"}
        => ReparsesToItself(merged_headings[i], Reparsed(merged_headings[i]))
\* write_file was called with backup enabled on a path that exists.
BackupDue == options.backup /\ options.document # None

\* C30: when write_file is called with backup enabled and the output path exists, the
\* backup file holds the complete previous document from the copy on, and so at the step
\* that replaces the output path; when the copy fails, OrgBackupError is raised, no
\* temporary file is written and the output path is as before.
C30_BackupBeforeOverwrite ==
  /\ []((BackupDue /\ phase \in {"backed_up", "temp_written"})
          => backup_file = options.document)
  /\ []((phase = "failed" /\ error = Some("OrgBackupError"))
          => (BackupDue /\ temp_file = None /\ PreviousDocument))
  /\ [][(BackupDue /\ phase = "temp_written" /\ phase' = "returned")
          => (backup_file = Some(text) /\ backup_file' = Some(text))]_vars

\* A call that replaced an existing document by another after the copy, where an older
\* backup was there, and a call whose copy failed.
C30_Witness ==
  /\ phase = "returned" /\ BackupDue
  /\ text = FileContent(merged_headings) /\ text # options.document[1]
  /\ backup_file = options.document

C30_WitnessBackupFails ==
  /\ phase = "failed" /\ error = Some("OrgBackupError")
  /\ backup_file \notin {None, Some(<<"x">>)}
=============================================================================
